---- MODULE Spec2Model ----
(***************************************************************************)
(* Babel Markdown: the translation pipeline of the JetBrains plugin        *)
(* (Kotlin TranslationService, OpenAITranslationClient,                    *)
(* TranslationPreviewService) and of the VS Code extension (TypeScript     *)
(* TranslationService, TranslationPreviewManager).                         *)
(*                                                                         *)
(* Text is a sequence of one-character strings.  Segment indexes are       *)
(* zero-based in the sources; jobs and sequence positions are numbered     *)
(* 1..N here and the zero-based index j-1 is what the records carry.       *)
(***************************************************************************)
EXTENDS Integers, Sequences, FiniteSets, TLC

\* ---------------------------------------------------------------- bounds
MaxSegments == 2
MaxTsSegments == 3

MaxRetry == 2

MaxDocuments == 2

MaxVersion == 2

MaxRuns == 2

MaxTime == 2

CacheTtl == 1

MaxCacheEntries == 2

MaxStores == 3
MaxSaves == 2
MaxConcurrency == 3
MinStatus == 100
MaxStatus == 600

\* ------------------------------------------------------------------ text
Whitespace == {" ", "\n", "\r"}

RECURSIVE TrimStart(_)
TrimStart(s) ==
  IF s = <<>> THEN <<>>
  ELSE IF Head(s) \in Whitespace THEN TrimStart(Tail(s)) ELSE s

RECURSIVE TrimEnd(_)
TrimEnd(s) ==
  IF s = <<>> THEN <<>>
  ELSE IF s[Len(s)] \in Whitespace THEN TrimEnd(SubSeq(s, 1, Len(s) - 1)) ELSE s

Trim(s) == TrimEnd(TrimStart(s))

BlankLine == <<"\n", "\n">>

RECURSIVE JoinToString(_, _)
JoinToString(parts, sep) ==
  IF parts = <<>> THEN <<>>
  ELSE IF Len(parts) = 1 THEN parts[1]
  ELSE parts[1] \o sep \o JoinToString(Tail(parts), sep)

Contains(s, sub) ==
  \E k \in 0..(Len(s) - Len(sub)) : SubSeq(s, k + 1, k + Len(sub)) = sub

RECURSIVE FilterNotNull(_)
FilterNotNull(arr) ==
  IF arr = <<>> THEN <<>>
  ELSE IF "null" \in DOMAIN Head(arr) THEN FilterNotNull(Tail(arr))
  ELSE <<Head(arr)>> \o FilterNotNull(Tail(arr))

Min(a, b) == IF a < b THEN a ELSE b
Max(a, b) == IF a > b THEN a ELSE b

NullResult == [null |-> TRUE]
NoRecovery == [null |-> TRUE]
IsNull(x) == "null" \in DOMAIN x

\* ------------------------------------------------- OpenAITranslationClient
ErrorCodes ==
  {"AUTHENTICATION", "TIMEOUT", "RATE_LIMIT", "NETWORK", "SERVER",
   "INVALID_RESPONSE", "UNKNOWN"}

RetryableCodes == {"TIMEOUT", "RATE_LIMIT", "NETWORK", "SERVER"}

\* What the HTTP call can do: the transport throws, or a response arrives
\* with a status and a body.
Transports == {"response", "socketTimeout", "ioError", "otherError"}
Bodies == {"content", "paddedContent", "blankContent", "noChoices", "emptyBody", "malformed"}

HttpResponse(status, body) == [transport |-> "response", status |-> status, body |-> body]
TransportFailure(kind) == [transport |-> kind, status |-> 0, body |-> "emptyBody"]

\* okhttp3.Response.isSuccessful
isSuccessful(status) == status >= 200 /\ status <= 299

StatusServerFirst(status) ==
  IF status \in {401, 403} THEN <<"AUTHENTICATION", FALSE>>
  ELSE IF status >= 500 /\ status <= 599 THEN <<"SERVER", TRUE>>
  ELSE IF status \in {408, 504} THEN <<"TIMEOUT", TRUE>>
  ELSE IF status = 429 THEN <<"RATE_LIMIT", TRUE>>
  ELSE <<"UNKNOWN", FALSE>>

StatusRateLimitTerminal(status) ==
  IF status \in {401, 403} THEN <<"AUTHENTICATION", FALSE>>
  ELSE IF status \in {408, 504} THEN <<"TIMEOUT", TRUE>>
  ELSE IF status = 429 THEN <<"RATE_LIMIT", FALSE>>
  ELSE IF status >= 500 /\ status <= 599 THEN <<"SERVER", TRUE>>
  ELSE <<"UNKNOWN", FALSE>>

mapStatusToError(status) ==
  IF status \in {401, 403} THEN <<"AUTHENTICATION", FALSE>>
  ELSE IF status \in {408, 504} THEN <<"TIMEOUT", TRUE>>
  ELSE IF status = 429 THEN <<"RATE_LIMIT", TRUE>>
  ELSE IF status >= 500 /\ status <= 599 THEN <<"SERVER", TRUE>>
  ELSE <<"UNKNOWN", FALSE>>

ProviderError(code, retryable, status) ==
  [kind |-> "provider", code |-> code, retryable |-> retryable, status |-> status]

OtherException == [kind |-> "exception"]

\* The text the provider sends back for a segment, before the client trims it.
Translation(segment) == <<"T">> \o segment

\* choices[0].message.content of the parsed body; gson.fromJson gives null for
\* an empty body and throws on a malformed one (see translate below).
ParsedContent(body, segment) ==
  IF body = "content" THEN Translation(segment)
  ELSE IF body = "paddedContent" THEN <<" ">> \o Translation(segment) \o <<"\n">>
  ELSE IF body = "blankContent" THEN <<" ", "\n">>
  ELSE <<>>

\* OpenAITranslationClient.translate: a RawTranslationResult, a
\* TranslationProviderException or (body parsing) another exception.
translate(resp, segment, model) ==
  IF resp.transport = "socketTimeout" THEN ProviderError("TIMEOUT", TRUE, 0)
  ELSE IF resp.transport = "ioError" THEN ProviderError("NETWORK", TRUE, 0)
  ELSE IF resp.transport = "otherError" THEN ProviderError("UNKNOWN", FALSE, 0)
  ELSE IF ~isSuccessful(resp.status)
    THEN ProviderError(mapStatusToError(resp.status)[1],
                       mapStatusToError(resp.status)[2], resp.status)
  ELSE IF resp.body \in {"malformed", "emptyBody"} THEN OtherException
  ELSE IF Trim(ParsedContent(resp.body, segment)) = <<>>
    THEN ProviderError("INVALID_RESPONSE", FALSE, 0)
  ELSE [kind |-> "result",
        result |-> [markdown |-> Trim(ParsedContent(resp.body, segment)),
                    providerId |-> "provider", latencyMs |-> 1]]

\* --------------------------------------------------------------- state
VARIABLES
  \* Kotlin TranslationService.translateDocument (one run)
  ktSegments,        \* segmenter.split(text)
  ktConcurrencyLimit,\* request.config.concurrencyLimit
  ktRetryMax,        \* request.config.retryMaxAttempts
  ktStatus,          \* "off" | "idle" | "running" | "returned" | "cancelled" | "failed"
  ktCancelled,       \* the run's coroutine Job was cancelled
  ktPermits,         \* Semaphore: available permits
  ktPc,              \* per async job: "queued" | "calling" | "delay" | "done" | "cancelled"
  ktAttempts,        \* translateSegmentWithRetry: attempts, per job
  ktResults,         \* results array
  ktRecoveries,      \* recoveries list, in order of insertion
  ktEmitted,         \* onSegment calls, in order
  ktPlan,            \* onPlan calls, in order
  ktFinal,           \* the TranslationResult returned
  ktCallLog,         \* history: per job, the outcome of each client call
  ktDispatched,      \* history: per job, entries into translateSegmentWithRetry
  \* TypeScript TranslationService.translateDocument (one run)
  tsSegments,        \* splitIntoSegments(text)
  tsPhase,           \* "off" | "idle" | "awaiting" | "returned" | "cancelled" | "failed"
  tsIndex,           \* the loop's index
  tsAborted,         \* context.signal.aborted
  tsCombined,        \* combinedMarkdown
  tsEmitted,         \* handlers.onSegment calls, in order
  tsFinal,           \* the TranslationResult the promise resolves with
  tsCalls,           \* history: segment index of each openAIClient.translate call
  tsAtAbort,         \* history: numbers of calls and updates when the signal was raised
  \* OpenAITranslationClient.translate (one call)
  clPhase,           \* "off" | "called" | "done"
  clResponse,        \* what the HTTP call does
  clOutcome,         \* what translate returns or throws
  \* TypeScript TranslationPreviewManager
  mgActive,          \* the manager exists
  mgVersion,         \* document.version, per document
  mgPreviews,        \* previews map: per document, the entry or NoPreview
  mgControllers,     \* abortControllers map: per document, a run or 0
  mgRuns,            \* the translateDocument calls made, in order of their start
  mgCache,           \* TranslationCache: the keys of the document entries
  mgLast,            \* history: the last render and how it answered
  \* Kotlin TranslationPreviewService
  psActive,          \* the service exists
  psCurrentFile,     \* currentFile (0 for null)
  psConfigured,      \* API key, base URL, model and target language are set
  psJob,             \* translationJob: a run or 0
  psRuns,            \* the coroutines launched, in order of their launch
  psPc,              \* per thread: position in refreshPreview
  psLocalFile,       \* per thread: refreshPreview's local file
  \* TypeScript TranslationCache
  caActive,          \* the cache exists
  caNow,             \* Date.now()
  caMaxEntries,      \* maxEntries
  caMaxSegmentEntries, \* maxSegmentEntries
  caEntries,         \* cache: the document tier, in insertion order
  caSeg,             \* segmentCache, segmentOwners and documentSegments
  caStores,          \* history: number of set and setSegment calls
  caLast,            \* history: the last call and its outcome
  \* TranslationCacheStore (the durable store of either plugin)
  stPlatform,        \* "off" | "vscode" | "jb"
  stFiles,           \* the cache directory: path and content of each entry file
  stSaves,           \* history: number of save calls
  stWritten,         \* history: per entry file, the save call that wrote it
  stLast,            \* history: the last call and its outcome
  \* MarkdownSegmenter.split and TranslationService.splitIntoSegments
  sgMarkdown,        \* the document text handed to the segmenter
  sgSegmenter,       \* "off" | "none" | the segmenter that has run
  sgSegments,        \* what it returned
  \* refreshPreview (Kotlin) and the refresh command (TypeScript)
  rcPlatform,        \* "off" | "jb" | "vscode"
  rcSettings,        \* the API key and the settings the call reads
  rcPosted,          \* messages posted to the preview
  rcLaunched,        \* configurations a translation was launched with
  rcNotified,        \* notifications shown in the IDE
  \* The webview of the translation preview
  wvHandled,         \* number of host messages the message listener has handled
  wvSurface          \* the sections of the output container and the counters

ktVars ==
  <<ktSegments, ktConcurrencyLimit, ktRetryMax, ktStatus, ktCancelled, ktPermits,
    ktPc, ktAttempts, ktResults, ktRecoveries, ktEmitted, ktPlan, ktFinal,
    ktCallLog, ktDispatched>>

tsVars ==
  <<tsSegments, tsPhase, tsIndex, tsAborted, tsCombined, tsEmitted, tsFinal, tsCalls,
    tsAtAbort>>

clVars == <<clPhase, clResponse, clOutcome>>

mgVars == <<mgActive, mgVersion, mgPreviews, mgControllers, mgRuns, mgCache, mgLast>>

psVars == <<psActive, psCurrentFile, psConfigured, psJob, psRuns, psPc, psLocalFile>>

caVars ==
  <<caActive, caNow, caMaxEntries, caMaxSegmentEntries, caEntries, caSeg, caStores, caLast>>

stVars == <<stPlatform, stFiles, stSaves, stWritten, stLast>>

sgVars == <<sgMarkdown, sgSegmenter, sgSegments>>

rcVars == <<rcPlatform, rcSettings, rcPosted, rcLaunched, rcNotified>>

wvVars == <<wvHandled, wvSurface>>

vars == <<ktVars, tsVars, clVars, mgVars, psVars, caVars, stVars, sgVars, rcVars, wvVars>>

\* What each subsystem's steps leave alone.
outsideKt == <<tsVars, clVars, mgVars, psVars, caVars, stVars, sgVars, rcVars, wvVars>>

outsideTs == <<ktVars, clVars, mgVars, psVars, caVars, stVars, sgVars, rcVars, wvVars>>

outsideCl == <<ktVars, tsVars, mgVars, psVars, caVars, stVars, sgVars, rcVars, wvVars>>

outsideMg == <<ktVars, tsVars, clVars, psVars, caVars, stVars, sgVars, rcVars, wvVars>>

outsidePs == <<ktVars, tsVars, clVars, mgVars, caVars, stVars, sgVars, rcVars, wvVars>>

outsideCa == <<ktVars, tsVars, clVars, mgVars, psVars, stVars, sgVars, rcVars, wvVars>>

outsideSt == <<ktVars, tsVars, clVars, mgVars, psVars, caVars, sgVars, rcVars, wvVars>>

outsideSg == <<ktVars, tsVars, clVars, mgVars, psVars, caVars, stVars, rcVars, wvVars>>

outsideRc == <<ktVars, tsVars, clVars, mgVars, psVars, caVars, stVars, sgVars, wvVars>>

outsideWv == <<ktVars, tsVars, clVars, mgVars, psVars, caVars, stVars, sgVars, rcVars>>

\* ------------------------------------------ subsystems not yet created
ClOff == clPhase = "off" /\ clResponse = TransportFailure("otherError") /\ clOutcome = OtherException

MgOff ==
  /\ mgActive = FALSE /\ mgVersion = <<>> /\ mgPreviews = <<>>
  /\ mgControllers = <<>> /\ mgRuns = <<>> /\ mgCache = {}
  /\ mgLast = <<>>

PsOff ==
  /\ psActive = FALSE /\ psCurrentFile = 0 /\ psConfigured = FALSE
  /\ psJob = 0 /\ psRuns = <<>> /\ psPc = <<>> /\ psLocalFile = <<>>

NoSegments ==
  [entries |-> <<>>, owners |-> {}, docSegments |-> {}, ownerKeys |-> {}, docKeys |-> {}]

NoCall == <<"none", "none">>

CaOff ==
  /\ caActive = FALSE /\ caNow = 0 /\ caMaxEntries = 0 /\ caMaxSegmentEntries = 0
  /\ caEntries = <<>> /\ caSeg = NoSegments /\ caStores = 0 /\ caLast = NoCall

WvOff ==
  /\ wvHandled = 0 /\ wvSurface = <<>>

RcOff ==
  /\ rcPlatform = "off" /\ rcSettings = <<>> /\ rcPosted = <<>> /\ rcLaunched = <<>> /\ rcNotified = <<>>

SgOff ==
  /\ sgMarkdown = <<>> /\ sgSegmenter = "off" /\ sgSegments = <<>>

StOff ==
  /\ stPlatform = "off" /\ stFiles = {} /\ stSaves = 0 /\ stWritten = {}
  /\ stLast = NoCall

\* ----------------------------------------- TypeScript TranslationService
NotAborted == [null |-> TRUE]

TsOff ==
  /\ tsSegments = <<>> /\ tsPhase = "off" /\ tsIndex = 0 /\ tsAborted = FALSE
  /\ tsCombined = <<>> /\ tsEmitted = <<>> /\ tsFinal = NullResult
  /\ tsCalls = <<>> /\ tsAtAbort = NotAborted

\* ------------------------------------- one call of the translation client
ClResponses ==
  {TransportFailure(kind) : kind \in Transports \ {"response"}}
  \cup {HttpResponse(status, body) : status \in MinStatus..MaxStatus, body \in Bodies}

ClSegment == <<"a">>

ClInit ==
  /\ clPhase = "called"
  /\ clResponse \in ClResponses
  /\ clOutcome = OtherException

\* Lines 83-141: the HTTP call ends and translate returns or throws.
ClTranslate ==
  /\ UNCHANGED outsideCl
  /\ clPhase = "called"
  /\ clPhase' = "done"
  /\ clOutcome' = translate(clResponse, ClSegment, "model")
  /\ UNCHANGED clResponse

ClNext == ClTranslate

\* --------------------------------------------- Kotlin TranslationService
Letters == <<"a", "b", "c", "d", "e", "f">>

\* The segmenter's segments are never blank; every other one ends in a space.
SegmentText(j) ==
  IF j % 2 = 0 THEN <<Letters[((j - 1) % 6) + 1], " ">>
  ELSE <<Letters[((j - 1) % 6) + 1]>>

SegmentsOf(n) == [j \in 1..n |-> SegmentText(j)]

ConfigModel == "model"

EmptyDocumentMarkdown == <<"_", "e", "m", "p", "t", "y", "_">>

NoopResult ==
  [markdown |-> EmptyDocumentMarkdown, providerId |-> "noop", latencyMs |-> 0,
   recoveries |-> <<>>]

NormalizeUnclamped(requested, segmentCount) ==
  IF requested < 1 THEN segmentCount ELSE requested

normalizeConcurrency(requested, segmentCount) ==
  IF requested < 1 THEN 1
  ELSE Min(requested, Max(segmentCount, 1))

\* "> Translation failed for this section (CODE).\n>\n> Showing original text."
PlaceholderIntro(code) == <<">", code, "\n", ">">>

PlaceholderWithoutBody(code, segmentMarkdown) == PlaceholderIntro(code)

buildPlaceholderSegment(code, segmentMarkdown) ==
  IF Trim(segmentMarkdown) # <<>>
    THEN PlaceholderIntro(code) \o BlankLine \o segmentMarkdown
    ELSE PlaceholderIntro(code)

\* How one client call's outcome is recorded in the history.
OutcomeClass(out) ==
  IF out.kind = "result" THEN "ok"
  ELSE IF out.kind = "exception" THEN "exception"
  ELSE IF out.retryable THEN "retryable" ELSE "terminal"

\* The try/catch of translateSegmentWithRetry after one client call:
\* "return" the result, "retry" after the backoff, or "recover" (break).
AfterAttemptRetryTerminal(out, attempts, retryMaxAttempts) ==
  IF out.kind = "result" THEN "return"
  ELSE IF out.kind = "exception" THEN "recover"
  ELSE IF attempts >= retryMaxAttempts THEN "recover"
  ELSE "retry"

AfterAttemptOffByOne(out, attempts, retryMaxAttempts) ==
  IF out.kind = "result" THEN "return"
  ELSE IF out.kind = "exception" THEN "recover"
  ELSE IF ~out.retryable \/ attempts + 1 >= retryMaxAttempts THEN "recover"
  ELSE "retry"

AfterAttemptRethrow(out, attempts, retryMaxAttempts) ==
  IF out.kind = "result" THEN "return"
  ELSE IF out.kind = "exception" THEN "propagate"
  ELSE IF ~out.retryable \/ attempts >= retryMaxAttempts THEN "recover"
  ELSE "retry"

AfterAttemptRetryAlways(out, attempts, retryMaxAttempts) ==
  IF out.kind = "result" THEN "return"
  ELSE IF out.kind = "exception" THEN "recover"
  ELSE IF ~out.retryable THEN "recover"
  ELSE "retry"

AfterAttempt(out, attempts, retryMaxAttempts) ==
  IF out.kind = "result" THEN "return"
  ELSE IF out.kind = "exception" THEN "recover"
  ELSE IF ~out.retryable \/ attempts >= retryMaxAttempts THEN "recover"
  ELSE "retry"

\* lastError after the loop: the provider error, or UNKNOWN for any other
\* exception and for a loop that never ran.
LastErrorCode(out) ==
  IF out.kind = "provider" THEN out.code ELSE "UNKNOWN"

NoAttempt == [kind |-> "none"]

SegmentRecovery(segmentIndex, code, attempts) ==
  [segmentIndex |-> segmentIndex, code |-> code, type |-> "placeholder",
   attempts |-> attempts]

\* The SegmentOutcome built after the loop (lines 145-167).
RecoveredOutcome(out, segmentMarkdown, segmentIndex, attempts) ==
  [result |-> [markdown |-> buildPlaceholderSegment(LastErrorCode(out), segmentMarkdown),
               providerId |-> ConfigModel, latencyMs |-> 0],
   recovery |-> SegmentRecovery(segmentIndex, LastErrorCode(out), attempts)]

SegmentUpdate(segmentIndex, totalSegments, outcome) ==
  [segmentIndex |-> segmentIndex, totalSegments |-> totalSegments,
   markdown |-> outcome.result.markdown, latencyMs |-> outcome.result.latencyMs,
   providerId |-> outcome.result.providerId, wasCached |-> FALSE,
   recovery |-> outcome.recovery]

\* The slot of the results array job j writes.
ResultSlotByCompletion(j, completed) == completed + 1

ResultSlot(j, completed) == j

\* Whether job j may take a permit and enter translateSegmentWithRetry.
CanAcquireAgain(j) == ktPc[j] \in {"queued", "done"}

CanAcquire(j) == ktPc[j] = "queued"

RECURSIVE InsertBySegmentIndex(_, _)
InsertBySegmentIndex(sorted, r) ==
  IF sorted = <<>> THEN <<r>>
  ELSE IF r.segmentIndex < Head(sorted).segmentIndex THEN <<r>> \o sorted
  ELSE <<Head(sorted)>> \o InsertBySegmentIndex(Tail(sorted), r)

InCompletionOrder(list) == list

RECURSIVE sortedBySegmentIndex(_)
sortedBySegmentIndex(list) ==
  IF list = <<>> THEN <<>>
  ELSE InsertBySegmentIndex(sortedBySegmentIndex(SubSeq(list, 1, Len(list) - 1)),
                            list[Len(list)])

RECURSIVE SumLatency(_)
SumLatency(rs) == IF rs = <<>> THEN 0 ELSE Head(rs).latencyMs + SumLatency(Tail(rs))

Markdowns(rs) == [k \in 1..Len(rs) |-> rs[k].markdown]

\* Lines 88-99: the TranslationResult composed from the results array.
ComposeFinal(results, recoveries) ==
  [markdown |-> JoinToString(Markdowns(FilterNotNull(results)), BlankLine),
   providerId |-> IF Len(results) > 0 /\ ~IsNull(results[1])
                    THEN results[1].providerId ELSE ConfigModel,
   latencyMs |-> SumLatency(FilterNotNull(results)),
   recoveries |-> sortedBySegmentIndex(recoveries)]

KtN == Len(ktSegments)
\* The async jobs, one per segment, once they are launched.
KtJobs == DOMAIN ktPc

ConcurrencyLimits == (0 - 1)..MaxConcurrency
RetryLimits == 0..MaxRetry

\* The responses the provider gives the scheduler's calls.
SchedulerResponses ==
  {HttpResponse(200, "paddedContent"), HttpResponse(401, "emptyBody"),
   HttpResponse(429, "emptyBody"), HttpResponse(200, "malformed")}

KtOff ==
  /\ ktSegments = <<>> /\ ktConcurrencyLimit = 0 /\ ktRetryMax = 0
  /\ ktStatus = "off" /\ ktCancelled = FALSE /\ ktPermits = 0
  /\ ktPc = <<>> /\ ktAttempts = <<>> /\ ktResults = <<>>
  /\ ktRecoveries = <<>> /\ ktEmitted = <<>> /\ ktPlan = <<>>
  /\ ktFinal = NullResult /\ ktCallLog = <<>> /\ ktDispatched = <<>>

\* A run that has not started, whatever its segments.
KtIdle ==
  /\ ktConcurrencyLimit \in ConcurrencyLimits
  /\ ktRetryMax \in RetryLimits
  /\ ktStatus = "idle" /\ ktCancelled = FALSE /\ ktPermits = 0
  /\ ktPc = <<>> /\ ktAttempts = <<>> /\ ktResults = <<>>
  /\ ktRecoveries = <<>> /\ ktEmitted = <<>> /\ ktPlan = <<>>
  /\ ktFinal = NullResult /\ ktCallLog = <<>> /\ ktDispatched = <<>>

KtInit ==
  /\ \E n \in 0..MaxSegments : ktSegments = SegmentsOf(n)
  /\ KtIdle

\* Lines 28-59: the empty document returns at once; otherwise onPlan, the
\* semaphore and one async job per segment.
KtStart ==
  /\ UNCHANGED outsideKt
  /\ ktStatus = "idle"
  /\ IF KtN = 0
       THEN /\ ktStatus' = "returned"
            /\ ktFinal' = NoopResult
            /\ UNCHANGED <<ktPermits, ktPc, ktAttempts, ktResults, ktPlan,
                           ktCallLog, ktDispatched>>
       ELSE /\ ktStatus' = "running"
            /\ ktPlan' = Append(ktPlan, ktSegments)
            /\ ktPermits' = normalizeConcurrency(ktConcurrencyLimit, KtN)
            /\ ktPc' = [j \in 1..KtN |-> "queued"]
            /\ ktAttempts' = [j \in 1..KtN |-> 0]
            /\ ktResults' = [j \in 1..KtN |-> NullResult]
            /\ ktCallLog' = [j \in 1..KtN |-> <<>>]
            /\ ktDispatched' = [j \in 1..KtN |-> 0]
            /\ UNCHANGED ktFinal
  /\ UNCHANGED <<ktSegments, ktConcurrencyLimit, ktRetryMax, ktCancelled,
                 ktRecoveries, ktEmitted>>

\* Lines 63-81 and the release of the permit: job j stores its outcome, adds
\* the recovery and calls onSegment.
KtFinish(j, outcome, permitsNow) ==
  /\ ktResults' = [ktResults EXCEPT ![ResultSlot(j, Len(ktEmitted))] = outcome.result]
  /\ ktRecoveries' = IF IsNull(outcome.recovery) THEN ktRecoveries
                     ELSE Append(ktRecoveries, outcome.recovery)
  /\ ktEmitted' = Append(ktEmitted, SegmentUpdate(j - 1, KtN, outcome))
  /\ ktPc' = [ktPc EXCEPT ![j] = "done"]
  /\ ktPermits' = permitsNow + 1

\* A job that ends in a CancellationException gives its permit back.
KtJobCancelled(j, permitsNow) ==
  /\ ktPc' = [ktPc EXCEPT ![j] = "cancelled"]
  /\ ktPermits' = permitsNow + 1
  /\ UNCHANGED <<ktResults, ktRecoveries, ktEmitted>>

\* semaphore.withPermit acquires and the job enters translateSegmentWithRetry:
\* the first client call is made, or the loop does not run at all.
KtAcquire(j) ==
  /\ UNCHANGED outsideKt
  /\ ktStatus = "running" /\ ~ktCancelled
  /\ CanAcquire(j)
  /\ ktPermits > 0
  /\ ktDispatched' = [ktDispatched EXCEPT ![j] = @ + 1]
  /\ IF 0 < ktRetryMax
       THEN /\ ktAttempts' = [ktAttempts EXCEPT ![j] = 1]
            /\ ktPc' = [ktPc EXCEPT ![j] = "calling"]
            /\ ktPermits' = ktPermits - 1
            /\ UNCHANGED <<ktResults, ktRecoveries, ktEmitted>>
       ELSE /\ KtFinish(j, RecoveredOutcome(NoAttempt, ktSegments[j], j - 1, 0),
                        ktPermits - 1)
            /\ UNCHANGED ktAttempts
  /\ UNCHANGED <<ktSegments, ktConcurrencyLimit, ktRetryMax, ktStatus, ktCancelled,
                 ktPlan, ktFinal, ktCallLog>>

\* client.translate returns or throws for job j (lines 112-143), and the job
\* runs on to its next suspension point.
KtClientReturns(j, resp) ==
  /\ UNCHANGED outsideKt
  /\ ktStatus = "running"
  /\ ktPc[j] = "calling"
  /\ LET out == translate(resp, ktSegments[j], ConfigModel)
         next == AfterAttempt(out, ktAttempts[j], ktRetryMax)
     IN /\ ktCallLog' = [ktCallLog EXCEPT ![j] = Append(@, OutcomeClass(out))]
        /\ IF next = "propagate"
             THEN /\ ktStatus' = "failed"
                  /\ ktPc' = [k \in KtJobs |-> IF ktPc[k] = "done" THEN "done" ELSE "cancelled"]
                  /\ UNCHANGED <<ktResults, ktRecoveries, ktEmitted, ktPermits>>
             ELSE /\ UNCHANGED ktStatus
                  /\ IF next = "return"
                       THEN IF ktCancelled
                              THEN KtJobCancelled(j, ktPermits)
                              ELSE KtFinish(j, [result |-> out.result,
                                                recovery |-> NoRecovery], ktPermits)
                     ELSE IF next = "retry"
                       THEN IF ktCancelled
                              THEN KtJobCancelled(j, ktPermits)
                              ELSE /\ ktPc' = [ktPc EXCEPT ![j] = "delay"]
                                   /\ UNCHANGED <<ktResults, ktRecoveries, ktEmitted,
                                                  ktPermits>>
                     ELSE KtFinish(j, RecoveredOutcome(out, ktSegments[j], j - 1,
                                                       ktAttempts[j]), ktPermits)
  /\ UNCHANGED <<ktSegments, ktConcurrencyLimit, ktRetryMax, ktCancelled, ktAttempts,
                 ktPlan, ktFinal, ktDispatched>>

\* The backoff delay(250L * attempts) ends and the loop makes the next call.
KtDelayElapses(j) ==
  /\ UNCHANGED outsideKt
  /\ ktStatus = "running"
  /\ ktPc[j] = "delay"
  /\ ktAttempts[j] < ktRetryMax
  /\ ktAttempts' = [ktAttempts EXCEPT ![j] = @ + 1]
  /\ ktPc' = [ktPc EXCEPT ![j] = "calling"]
  /\ UNCHANGED <<ktSegments, ktConcurrencyLimit, ktRetryMax, ktStatus, ktCancelled,
                 ktPermits, ktResults, ktRecoveries, ktEmitted, ktPlan, ktFinal,
                 ktCallLog, ktDispatched>>

\* jobs.awaitAll() returns and the result is composed (lines 85-99).
KtAwaitAll ==
  /\ UNCHANGED outsideKt
  /\ ktStatus = "running" /\ ~ktCancelled
  /\ \A j \in KtJobs : ktPc[j] = "done"
  /\ ktStatus' = "returned"
  /\ ktFinal' = ComposeFinal(ktResults, ktRecoveries)
  /\ UNCHANGED <<ktSegments, ktConcurrencyLimit, ktRetryMax, ktCancelled, ktPermits,
                 ktPc, ktAttempts, ktResults, ktRecoveries, ktEmitted, ktPlan,
                 ktCallLog, ktDispatched>>

\* The run's Job is cancelled: jobs waiting for a permit or in the backoff
\* delay end at once; a blocking client call runs on until it returns.
KtCancel ==
  /\ UNCHANGED outsideKt
  /\ ktStatus = "running" /\ ~ktCancelled
  /\ ktCancelled' = TRUE
  /\ ktPc' = [j \in KtJobs |->
               IF ktPc[j] \in {"queued", "delay"} THEN "cancelled" ELSE ktPc[j]]
  /\ ktPermits' = ktPermits + Cardinality({j \in KtJobs : ktPc[j] = "delay"})
  /\ UNCHANGED <<ktSegments, ktConcurrencyLimit, ktRetryMax, ktStatus, ktAttempts,
                 ktResults, ktRecoveries, ktEmitted, ktPlan, ktFinal, ktCallLog,
                 ktDispatched>>

\* coroutineScope ends with the CancellationException once no job is running.
KtCancelledEnd ==
  /\ UNCHANGED outsideKt
  /\ ktStatus = "running" /\ ktCancelled
  /\ \A j \in KtJobs : ktPc[j] \in {"done", "cancelled"}
  /\ ktStatus' = "cancelled"
  /\ UNCHANGED <<ktSegments, ktConcurrencyLimit, ktRetryMax, ktCancelled, ktPermits,
                 ktPc, ktAttempts, ktResults, ktRecoveries, ktEmitted, ktPlan, ktFinal,
                 ktCallLog, ktDispatched>>

KtNext ==
  \/ KtStart
  \/ \E j \in KtJobs : KtAcquire(j)
  \/ \E j \in KtJobs : \E resp \in SchedulerResponses : KtClientReturns(j, resp)
  \/ \E j \in KtJobs : KtDelayElapses(j)
  \/ KtAwaitAll
  \/ KtCancel
  \/ KtCancelledEnd

KtOnly == KtInit /\ TsOff /\ ClOff /\ MgOff /\ PsOff /\ CaOff /\ StOff /\ SgOff /\ RcOff /\ WvOff

SpecKt == KtOnly /\ [][KtNext]_vars

\* ------------------------------------------- claims: Kotlin scheduler
KtInProgress == {j \in KtJobs : ktPc[j] \in {"calling", "delay"}}

KtEmissionsOf(i) == {k \in 1..Len(ktEmitted) : ktEmitted[k].segmentIndex = i}

KtRecoveriesOf(list, i) == {k \in 1..Len(list) : list[k].segmentIndex = i}

KtAllRetryable(log) == Len(log) >= 1 /\ \A k \in 1..Len(log) : log[k] = "retryable"

\* C1: the onSegment calls of a run are strictly increasing in segmentIndex.
C1_EmissionStrictlyAscending ==
  \A k \in 1..(Len(ktEmitted) - 1) :
    ktEmitted[k].segmentIndex < ktEmitted[k + 1].segmentIndex

\* C3: no client failure fails the run; a run that is not cancelled loses no
\* job, and when it returns onSegment was called exactly once per index.
C3_SegmentFailuresRecoveredLocally ==
  /\ ktStatus # "failed"
  /\ ~ktCancelled => \A j \in DOMAIN ktPc : ktPc[j] # "cancelled"
  /\ \A i \in 0..(KtN - 1) : Cardinality(KtEmissionsOf(i)) <= 1
  /\ (ktStatus = "returned" /\ KtN >= 1) =>
       /\ Len(ktEmitted) = KtN
       /\ \A i \in 0..(KtN - 1) : Cardinality(KtEmissionsOf(i)) = 1

C3_Witness ==
  /\ ktStatus = "returned" /\ KtN = 2
  /\ \E j \in KtJobs : "exception" \in {ktCallLog[j][k] : k \in 1..Len(ktCallLog[j])}
  /\ \E j \in KtJobs : "terminal" \in {ktCallLog[j][k] : k \in 1..Len(ktCallLog[j])}

\* C4: a segment whose every client call threw a retryable error was called
\* exactly retryMaxAttempts times; the run returns with a placeholder that
\* holds the segment's text and exactly one recovery for it, of type
\* "placeholder" with attempts = retryMaxAttempts.
C4_RetryableExhaustionGivesPlaceholder ==
  (ktStatus = "returned" /\ ktRetryMax >= 1) =>
    \A j \in KtJobs :
      KtAllRetryable(ktCallLog[j]) =>
        /\ Len(ktCallLog[j]) = ktRetryMax
        /\ Head(ktResults[j].markdown) = ">"
        /\ Contains(ktResults[j].markdown, ktSegments[j])
        /\ ktEmitted[CHOOSE k \in KtEmissionsOf(j - 1) : TRUE].markdown = ktResults[j].markdown
        /\ Cardinality(KtRecoveriesOf(ktFinal.recoveries, j - 1)) = 1
        /\ \A k \in KtRecoveriesOf(ktFinal.recoveries, j - 1) :
             /\ ktFinal.recoveries[k].type = "placeholder"
             /\ ktFinal.recoveries[k].attempts = ktRetryMax

C4_Witness ==
  /\ ktStatus = "returned" /\ ktRetryMax = 2 /\ KtN = 2
  /\ KtAllRetryable(ktCallLog[1])
  /\ ktCallLog[2] = <<"ok">>

\* C7: every segment index is dispatched to segment processing at most once,
\* and exactly once in a run that returns.
C7_EachIndexDispatchedOnce ==
  /\ \A j \in DOMAIN ktDispatched : ktDispatched[j] <= 1
  /\ ktStatus = "returned" => \A j \in DOMAIN ktDispatched : ktDispatched[j] = 1

C7_Witness ==
  /\ ktStatus = "returned" /\ KtN = 2 /\ ktConcurrencyLimit = 2
  /\ Len(ktCallLog[1]) = 2 /\ ktDispatched[1] = 1 /\ ktDispatched[2] = 1

\* C8: at most min(max(concurrencyLimit, 1), N) segments are in progress.
C8_ConcurrencyCeiling ==
  KtN >= 1 =>
    Cardinality(KtInProgress) <= Min(Max(ktConcurrencyLimit, 1), KtN)

C8_Witness ==
  /\ ktStatus = "running" /\ KtN = 2 /\ ktConcurrencyLimit = 3
  /\ ktPc[1] = "delay" /\ ktPc[2] = "calling"

\* C9: per segment, with retryMaxAttempts >= 1: at most retryMaxAttempts
\* client calls; only a retryable failure is followed by another call; a
\* finished segment made at least one call, has no recovery exactly when its
\* last call succeeded, and stopped on a retryable failure only at the limit.
C9_RetryStateMachine ==
  ktRetryMax >= 1 =>
    \A j \in DOMAIN ktCallLog :
      LET log == ktCallLog[j] IN
      /\ Len(log) <= ktRetryMax
      /\ \A k \in 1..(Len(log) - 1) : log[k] = "retryable"
      /\ ktPc[j] = "calling" => Len(log) = ktAttempts[j] - 1
      /\ ktPc[j] = "delay" =>
           /\ Len(log) = ktAttempts[j] /\ Len(log) < ktRetryMax
           /\ log[Len(log)] = "retryable"
      /\ ktPc[j] = "done" =>
           /\ Len(log) >= 1 /\ Len(log) = ktAttempts[j]
           /\ log[Len(log)] = "retryable" => Len(log) = ktRetryMax
           /\ log[Len(log)] = "ok" <=> KtRecoveriesOf(ktRecoveries, j - 1) = {}
           /\ log[Len(log)] = "ok" => ktResults[j].markdown = Trim(Translation(ktSegments[j]))

C9_Witness ==
  /\ ktStatus = "running" /\ ktRetryMax = 2
  /\ ktPc[1] = "done" /\ ktCallLog[1] = <<"retryable", "ok">>

\* ----------------------------------------- TypeScript TranslationService
TsN == Len(tsSegments)

\* What openAIClient.translate can settle with.  A call that was in flight
\* when the signal was raised may still resolve, or reject with a
\* cancellation error or with any other error.
TsClientOutcomes(segment, aborted) ==
  {[kind |-> "result",
    result |-> [markdown |-> md, providerId |-> "provider", latencyMs |-> 1]] :
      md \in {Translation(segment), Translation(segment) \o <<"\n">>}}
  \cup {[kind |-> "error"]}
  \cup (IF aborted THEN {[kind |-> "cancellation"]} ELSE {})

TsSegmentUpdate(index, totalSegments, result) ==
  [segmentIndex |-> index, totalSegments |-> totalSegments,
   markdown |-> result.markdown, latencyMs |-> result.latencyMs,
   providerId |-> result.providerId]

\* The part of a segment's markdown pushed onto combinedMarkdown (line 89).
CombinedPart(markdown) == TrimEnd(markdown)

\* Lines 101-108: the result composed from combinedMarkdown.
TsComposeFinal(combined, providerId, latency) ==
  [markdown |-> JoinToString(combined, BlankLine), providerId |-> providerId,
   latencyMs |-> latency]

\* A run that has not started, whatever its segments.
TsIdle ==
  /\ tsPhase = "idle" /\ tsIndex = 0
  /\ tsAborted \in BOOLEAN
  /\ tsCombined = <<>> /\ tsEmitted = <<>> /\ tsFinal = NullResult
  /\ tsCalls = <<>>
  /\ tsAtAbort = IF tsAborted THEN [calls |-> 0, emitted |-> 0] ELSE NotAborted

TsInit ==
  /\ \E n \in 0..MaxTsSegments : tsSegments = SegmentsOf(n)
  /\ TsIdle

\* Lines 45-85: translateDocument up to its first await.
TsBegin ==
  /\ UNCHANGED outsideTs
  /\ tsPhase = "idle"
  /\ IF tsAborted
       THEN /\ tsPhase' = "cancelled"
            /\ UNCHANGED <<tsFinal, tsCalls>>
       ELSE IF TsN = 0
         THEN /\ tsPhase' = "returned"
              /\ tsFinal' = [markdown |-> EmptyDocumentMarkdown, providerId |-> "noop",
                             latencyMs |-> 0]
              /\ UNCHANGED tsCalls
         ELSE /\ tsPhase' = "awaiting"
              /\ tsCalls' = Append(tsCalls, 0)
              /\ UNCHANGED tsFinal
  /\ UNCHANGED <<tsSegments, tsIndex, tsAborted, tsCombined, tsEmitted, tsAtAbort>>

\* Lines 80-117: the awaited client call settles and the loop runs on to the
\* next await, to the return or to the throw.
TsClientSettles(out) ==
  /\ UNCHANGED outsideTs
  /\ tsPhase = "awaiting"
  /\ IF out.kind = "cancellation"
       THEN /\ tsPhase' = "cancelled"
            /\ UNCHANGED <<tsIndex, tsCombined, tsEmitted, tsFinal, tsCalls>>
     ELSE IF out.kind = "error"
       THEN /\ tsPhase' = "failed"
            /\ UNCHANGED <<tsIndex, tsCombined, tsEmitted, tsFinal, tsCalls>>
     ELSE /\ tsCombined' = Append(tsCombined, CombinedPart(out.result.markdown))
          /\ tsEmitted' = Append(tsEmitted, TsSegmentUpdate(tsIndex, TsN, out.result))
          /\ tsIndex' = tsIndex + 1
          /\ IF tsIndex + 1 < TsN
               THEN IF tsAborted
                      THEN /\ tsPhase' = "cancelled"
                           /\ UNCHANGED <<tsFinal, tsCalls>>
                      ELSE /\ tsPhase' = "awaiting"
                           /\ tsCalls' = Append(tsCalls, tsIndex + 1)
                           /\ UNCHANGED tsFinal
               ELSE /\ tsPhase' = "returned"
                    /\ tsFinal' = TsComposeFinal(tsCombined', out.result.providerId,
                                                 Len(tsCombined'))
                    /\ UNCHANGED tsCalls
  /\ UNCHANGED <<tsSegments, tsAborted, tsAtAbort>>

\* The caller's AbortController is aborted while the run is in flight.
TsAbort ==
  /\ UNCHANGED outsideTs
  /\ tsPhase = "awaiting" /\ ~tsAborted
  /\ tsAborted' = TRUE
  /\ tsAtAbort' = [calls |-> Len(tsCalls), emitted |-> Len(tsEmitted)]
  /\ UNCHANGED <<tsSegments, tsPhase, tsIndex, tsCombined, tsEmitted, tsFinal, tsCalls>>

\* The outcomes of the call the run is waiting for.
TsPendingOutcomes ==
  IF tsPhase = "awaiting"
    THEN TsClientOutcomes(tsSegments[tsIndex + 1], tsAborted)
    ELSE {}

TsNext ==
  \/ TsBegin
  \/ \E out \in TsPendingOutcomes : TsClientSettles(out)
  \/ TsAbort

TsOnly == TsInit /\ KtOff /\ ClOff /\ MgOff /\ PsOff /\ CaOff /\ StOff /\ SgOff /\ RcOff /\ WvOff

SpecTs == TsOnly /\ [][TsNext]_vars

ClOnly == ClInit /\ KtOff /\ TsOff /\ MgOff /\ PsOff /\ CaOff /\ StOff /\ SgOff /\ RcOff /\ WvOff

SpecClient == ClOnly /\ [][ClNext]_vars

\* Both translation services.
TranslateInit ==
  /\ (KtInit /\ TsOff) \/ (TsInit /\ KtOff)
  /\ ClOff /\ MgOff /\ PsOff /\ CaOff /\ StOff /\ SgOff /\ RcOff /\ WvOff

TranslateNext == KtNext \/ TsNext

SpecTranslate == TranslateInit /\ [][TranslateNext]_vars

\* ------------------------------------- claims: sequential translation
\* C5: in the TypeScript service, once the signal is raised, also while a
\* client call is in flight, no further client call is made, no further
\* onSegment update is emitted and the run ends only by rejecting with the
\* cancellation error.
C5_AbortStopsSequentialRun ==
  tsAborted =>
    /\ Len(tsCalls) = tsAtAbort.calls
    /\ Len(tsEmitted) = tsAtAbort.emitted
    /\ tsPhase \in {"idle", "awaiting", "cancelled"}

\* The part of C5 the code keeps: no client call is made after the signal.
C5_NoClientCallAfterAbort == tsAborted => Len(tsCalls) = tsAtAbort.calls

TsEmittedMarkdown(trim) ==
  [i \in 1..Len(tsEmitted) |->
     IF trim THEN TrimEnd(tsEmitted[i].markdown) ELSE tsEmitted[i].markdown]

KtEmittedMarkdownOf(i) ==
  LET k == CHOOSE k \in 1..Len(ktEmitted) : ktEmitted[k].segmentIndex = i
  IN  ktEmitted[k].markdown

KtEmittedMarkdownByIndex == [j \in 1..KtN |-> KtEmittedMarkdownOf(j - 1)]

KtReturnedSegments == ktStatus = "returned" /\ KtN >= 1

TsReturnedSegments == tsPhase = "returned" /\ TsN >= 1

C2_WitnessKt ==
  /\ ktStatus = "returned" /\ KtN >= 2
  /\ ktEmitted[1].segmentIndex = KtN - 1

\* ------------------------------------------- claims: translation client
ClRaised == clPhase = "done" /\ clOutcome.kind = "provider"

ClStatusRaised ==
  /\ ClRaised /\ clResponse.transport = "response" /\ ~isSuccessful(clResponse.status)

\* C10: for a non-successful status the raised error's code is AUTHENTICATION
\* for 401 and 403, TIMEOUT for 408 and 504, RATE_LIMIT for 429, SERVER for
\* every other status in 500-599 and UNKNOWN for anything else; and every
\* raised error is retryable exactly when its code is TIMEOUT, RATE_LIMIT,
\* NETWORK or SERVER.
C10_StatusClassification ==
  /\ ClRaised => (clOutcome.retryable <=> clOutcome.code \in RetryableCodes)
  /\ ClStatusRaised =>
       LET status == clResponse.status
           code == clOutcome.code
       IN  /\ status \in {401, 403} => code = "AUTHENTICATION"
           /\ status \in {408, 504} => code = "TIMEOUT"
           /\ status = 429 => code = "RATE_LIMIT"
           /\ status \in (500..599) \ {504} => code = "SERVER"
           /\ status \notin {401, 403, 408, 429} \cup (500..599) => code = "UNKNOWN"
           /\ clOutcome.status = status

\* C10 as stated: as above, but with SERVER for every status in 500-599.
C10_EveryStatusFrom500To599IsServer ==
  /\ ClRaised => (clOutcome.retryable <=> clOutcome.code \in RetryableCodes)
  /\ ClStatusRaised =>
       LET status == clResponse.status
           code == clOutcome.code
       IN  /\ status \in {401, 403} => code = "AUTHENTICATION"
           /\ status \in {408, 504} => code = "TIMEOUT"
           /\ status = 429 => code = "RATE_LIMIT"
           /\ status \in 500..599 => code = "SERVER"
           /\ status \notin {401, 403, 408, 429} \cup (500..599) => code = "UNKNOWN"

\* A 504, named by the TIMEOUT rule and inside 500-599, has been classified.
C10_Witness == ClStatusRaised /\ clResponse.status = 504 /\ clOutcome.code = "TIMEOUT"

\* ------------------------------------- TypeScript TranslationPreviewManager
Documents == 1..MaxDocuments

NoPreview == [open |-> FALSE, lastVersion |-> 0]

PreviewEntry(version) == [open |-> TRUE, lastVersion |-> version]

\* A translateDocument call with the AbortController made for it; text is the
\* version whose text document.getText() hands to the call, stored the keys
\* of the cache writes of the run.
NewRun(document) ==
  [document |-> document, aborted |-> FALSE, state |-> "inFlight", posted |-> <<>>,
   text |-> mgVersion[document], stored |-> <<>>]

SettledSilently(kind, aborted) ==
  IF kind = "result" /\ ~aborted THEN <<"translationResult">> ELSE <<>>

\* render, lines 300-326: what the run posts once translateDocument settles.
settledMessages(kind, aborted) ==
  IF kind = "result" THEN (IF aborted THEN <<>> ELSE <<"translationResult">>)
  ELSE IF kind = "cancellation" THEN <<>>
  ELSE <<"translationError">>

\* No render yet.
NoRender ==
  [document |-> 0, force |-> FALSE, invalidateCache |-> FALSE, hadFreshEntry |-> FALSE,
   versionUnchanged |-> FALSE, answer |-> "none"]

Rendered(d, previews, force, invalidateCache, expired, answer) ==
  [document |-> d, force |-> force, invalidateCache |-> invalidateCache,
   hadFreshEntry |-> (<<d, mgVersion[d]>> \in mgCache /\ ~expired),
   versionUnchanged |-> (mgVersion[d] = previews[d].lastVersion),
   answer |-> answer]

\* TranslationCache.buildKey; the configuration does not change here.
buildKey(document, version) == <<document, version>>

ClearNothing(cache, document) == cache

\* TranslationCache.clearForDocument
clearForDocument(cache, document) == {key \in cache : key[1] # document}

AbortNothing(runs, r) == runs

\* AbortController.abort on the controller stored for a run (0: none stored).
Abort(runs, r) == IF r = 0 THEN runs ELSE [runs EXCEPT ![r].aborted = TRUE]

MgInit ==
  /\ mgActive = TRUE
  /\ mgVersion = [d \in Documents |-> 1]
  /\ mgPreviews = [d \in Documents |-> NoPreview]
  /\ mgControllers = [d \in Documents |-> 0]
  /\ mgRuns = <<>>
  /\ mgCache = {}
  /\ mgLast = NoRender

\* render, lines 233-298, up to the await of translateDocument; expired says
\* whether a cached entry found by cache.get is older than its time to live.
render(d, previews, force, invalidateCache, expired) ==
  IF ~force /\ mgVersion[d] = previews[d].lastVersion
    THEN /\ mgPreviews' = previews
         /\ mgLast' = Rendered(d, previews, force, invalidateCache, expired, "skipped")
         /\ UNCHANGED <<mgControllers, mgRuns, mgCache>>
    ELSE LET cleared == IF invalidateCache THEN clearForDocument(mgCache, d) ELSE mgCache
             key == buildKey(d, mgVersion[d])
             cached == key \in cleared /\ ~expired
         IN  /\ mgPreviews' = [previews EXCEPT ![d].lastVersion = mgVersion[d]]
             /\ mgCache' = IF key \in cleared /\ expired THEN cleared \ {key} ELSE cleared
             /\ mgLast' = Rendered(d, previews, force, invalidateCache, expired,
                                    IF cached THEN "cache" ELSE "service")
             /\ IF cached
                  THEN UNCHANGED <<mgControllers, mgRuns>>
                  ELSE /\ Len(mgRuns) < MaxRuns
                       /\ mgRuns' = Append(Abort(mgRuns, mgControllers[d]), NewRun(d))
                       /\ mgControllers' = [mgControllers EXCEPT ![d] = Len(mgRuns) + 1]

\* openPreview, lines 158-219.
MgOpenPreview(d, expired) ==
  /\ UNCHANGED outsideMg
  /\ mgActive
  /\ IF mgPreviews[d].open
       THEN render(d, mgPreviews, FALSE, FALSE, expired)
       ELSE render(d, [mgPreviews EXCEPT ![d] = PreviewEntry(mgVersion[d])], TRUE, FALSE,
                   expired)
  /\ UNCHANGED <<mgActive, mgVersion>>

\* refreshPreview, lines 221-231.
MgRefreshPreview(d) ==
  /\ UNCHANGED outsideMg
  /\ mgActive /\ mgPreviews[d].open
  /\ render(d, mgPreviews, TRUE, TRUE, FALSE)
  /\ UNCHANGED <<mgActive, mgVersion>>

\* render, lines 300-332: the awaited translateDocument settles.
MgRunSettles(r, kind) ==
  /\ UNCHANGED outsideMg
  /\ mgRuns[r].state = "inFlight"
  /\ kind = "cancellation" => mgRuns[r].aborted
  /\ LET d == mgRuns[r].document
     IN  /\ mgCache' = IF kind = "result" /\ ~mgRuns[r].aborted
                         THEN mgCache \cup {buildKey(d, mgVersion[d])}
                         ELSE mgCache
         /\ mgControllers' = IF mgControllers[d] = r
                               THEN [mgControllers EXCEPT ![d] = 0]
                               ELSE mgControllers
  /\ mgRuns' = [mgRuns EXCEPT ![r].state = "settled",
                              ![r].posted = settledMessages(kind, mgRuns[r].aborted),
                              ![r].stored = IF kind = "result" /\ ~mgRuns[r].aborted
                                              THEN <<buildKey(mgRuns[r].document,
                                                              mgVersion[mgRuns[r].document])>>
                                              ELSE <<>>]
  /\ UNCHANGED <<mgActive, mgVersion, mgPreviews, mgLast>>

\* The panel's onDidDispose listener, lines 195-206.
onDidDispose(d, cache) ==
  /\ mgPreviews' = [mgPreviews EXCEPT ![d] = NoPreview]
  /\ mgRuns' = Abort(mgRuns, mgControllers[d])
  /\ mgControllers' = [mgControllers EXCEPT ![d] = 0]
  /\ mgCache' = cache

\* The user closes the preview panel.
MgPanelClosed(d) ==
  /\ UNCHANGED outsideMg
  /\ mgActive /\ mgPreviews[d].open
  /\ onDidDispose(d, mgCache)
  /\ UNCHANGED <<mgActive, mgVersion, mgLast>>

\* The close event of a document: the run it found in flight (0: none) and
\* whether the cache held an entry of the document.
Closed(d) ==
  [document |-> d, force |-> FALSE, invalidateCache |-> FALSE,
   hadFreshEntry |-> (\E key \in mgCache : key[1] = d),
   versionUnchanged |-> FALSE, answer |-> "closed",
   inFlight |-> IF mgPreviews[d].open THEN mgControllers[d] ELSE 0]

\* onDidCloseTextDocument, lines 126-136.
MgDocumentClosed(d) ==
  /\ UNCHANGED outsideMg
  /\ mgActive
  /\ IF mgPreviews[d].open
       THEN onDidDispose(d, clearForDocument(mgCache, d))
       ELSE /\ mgCache' = clearForDocument(mgCache, d)
            /\ UNCHANGED <<mgPreviews, mgRuns, mgControllers>>
  /\ mgLast' = Closed(d)
  /\ UNCHANGED <<mgActive, mgVersion>>

\* The user edits the document.
MgEdit(d) ==
  /\ UNCHANGED outsideMg
  /\ mgActive /\ mgVersion[d] < MaxVersion
  /\ mgVersion' = [mgVersion EXCEPT ![d] = @ + 1]
  /\ UNCHANGED <<mgActive, mgPreviews, mgControllers, mgRuns, mgCache, mgLast>>

MgNext ==
  \/ \E d \in Documents : \E expired \in BOOLEAN : MgOpenPreview(d, expired)
  \/ \E d \in Documents : MgRefreshPreview(d)
  \/ \E r \in DOMAIN mgRuns : \E kind \in {"result", "cancellation", "error"} :
       MgRunSettles(r, kind)
  \/ \E d \in Documents : MgPanelClosed(d)
  \/ \E d \in Documents : MgDocumentClosed(d)
  \/ \E d \in Documents : MgEdit(d)

MgOnly == MgInit /\ KtOff /\ TsOff /\ ClOff /\ PsOff /\ CaOff /\ StOff /\ SgOff /\ RcOff /\ WvOff

SpecMg == MgOnly /\ [][MgNext]_vars

\* --------------------------------------- Kotlin TranslationPreviewService
\* refreshPreview is entered on the event dispatch thread by the actions,
\* attachPanel and the fileClosed listener, and on the browser's thread by the
\* JBCefJSQuery handler of the panel (requestRetry).  translationJob is a plain
\* field and refreshPreview takes no lock.
Threads == {"edt", "browser"}

\* scope.launch { translateDocument(...) }
Launched(file) ==
  [document |-> file, cancelled |-> FALSE, state |-> "inFlight", posted |-> <<>>]

\* How translateDocument ends in the launched coroutine: with a result, with
\* a result in which segments were recovered, with an exception or with the
\* CancellationException of a cancelled job.
JobEndings == {"result", "recovered", "error", "cancellation"}

CompletionWithoutCatch(ending) ==
  IF ending \in {"result", "recovered"} THEN <<"translationResult", "setLoading">>
  ELSE <<"setLoading">>

\* The try, catch and finally of the launched coroutine, lines 160-239: the
\* messages it posts once translateDocument has ended.
completionMessages(ending) ==
  IF ending \in {"result", "recovered"} THEN <<"translationResult", "setLoading">>
  ELSE IF ending = "cancellation" THEN <<"setLoading">>
  ELSE <<"translationError", "setLoading">>

\* translationJob?.cancel(); cancelling a completed job does nothing.
CancelJob(runs, job) ==
  IF job = 0 \/ runs[job].state # "inFlight" THEN runs
  ELSE [runs EXCEPT ![job].cancelled = TRUE]

\* The service with its panel attached and no file opened yet.
PsInit ==
  /\ psActive = TRUE
  /\ psCurrentFile = 0
  /\ psConfigured \in BOOLEAN
  /\ psJob = 0
  /\ psRuns = <<>>
  /\ psPc = [t \in Threads |-> "idle"]
  /\ psLocalFile = [t \in Threads |-> 0]

\* refreshPreview, lines 85-146: the checks and translationJob?.cancel().
refreshPreviewBegin(t, file) ==
  IF file = 0 \/ ~psConfigured
    THEN UNCHANGED <<psRuns, psPc, psLocalFile>>
    ELSE /\ psRuns' = CancelJob(psRuns, psJob)
         /\ psPc' = [psPc EXCEPT ![t] = "launch"]
         /\ psLocalFile' = [psLocalFile EXCEPT ![t] = file]

\* openPreview, lines 74-83.
PsOpenPreview(file) ==
  /\ UNCHANGED outsidePs
  /\ psActive /\ psPc["edt"] = "idle"
  /\ psCurrentFile' = file
  /\ refreshPreviewBegin("edt", file)
  /\ UNCHANGED <<psActive, psConfigured, psJob>>

\* The refresh action on the event dispatch thread.
PsRefresh ==
  /\ UNCHANGED outsidePs
  /\ psActive /\ psPc["edt"] = "idle"
  /\ refreshPreviewBegin("edt", psCurrentFile)
  /\ UNCHANGED <<psActive, psCurrentFile, psConfigured, psJob>>

\* onRequestRetry, lines 242-244, on the browser's thread.
PsRequestRetry ==
  /\ UNCHANGED outsidePs
  /\ psActive /\ psPc["browser"] = "idle"
  /\ refreshPreviewBegin("browser", psCurrentFile)
  /\ UNCHANGED <<psActive, psCurrentFile, psConfigured, psJob>>

\* refreshPreview, lines 148-160: translationJob = scope.launch { ... }.
PsLaunch(t) ==
  /\ UNCHANGED outsidePs
  /\ psActive /\ psPc[t] = "launch"
  /\ Len(psRuns) < MaxRuns
  /\ psRuns' = Append(psRuns, Launched(psLocalFile[t]))
  /\ psJob' = Len(psRuns) + 1
  /\ psPc' = [psPc EXCEPT ![t] = "idle"]
  /\ UNCHANGED <<psActive, psCurrentFile, psConfigured, psLocalFile>>

\* The launched coroutine ends: with a result, an error or its cancellation.
PsRunEnds(r, ending) ==
  /\ UNCHANGED outsidePs
  /\ psRuns[r].state = "inFlight"
  /\ ending = "cancellation" => psRuns[r].cancelled
  /\ psRuns' = [psRuns EXCEPT ![r].state = "completed",
                              ![r].posted = completionMessages(ending)]
  /\ UNCHANGED <<psActive, psCurrentFile, psConfigured, psJob, psPc, psLocalFile>>

\* fileClosed of the current file: closePreview, lines 246-257.
PsClosePreview ==
  /\ UNCHANGED outsidePs
  /\ psActive /\ psPc["edt"] = "idle" /\ psCurrentFile # 0
  /\ psRuns' = CancelJob(psRuns, psJob)
  /\ psJob' = 0
  /\ psCurrentFile' = 0
  /\ UNCHANGED <<psActive, psConfigured, psPc, psLocalFile>>

\* The user changes the settings.
PsSettingsChanged ==
  /\ UNCHANGED outsidePs
  /\ psActive
  /\ psConfigured' = ~psConfigured
  /\ UNCHANGED <<psActive, psCurrentFile, psJob, psRuns, psPc, psLocalFile>>

PsNext ==
  \/ \E file \in Documents : PsOpenPreview(file)
  \/ PsRefresh
  \/ PsRequestRetry
  \/ \E t \in Threads : PsLaunch(t)
  \/ \E r \in DOMAIN psRuns : \E ending \in JobEndings : PsRunEnds(r, ending)
  \/ PsClosePreview
  \/ PsSettingsChanged

PsOnly == PsInit /\ KtOff /\ TsOff /\ ClOff /\ MgOff /\ CaOff /\ StOff /\ SgOff /\ RcOff /\ WvOff

SpecPs == PsOnly /\ [][PsNext]_vars

\* Both preview hosts.
PreviewInit ==
  /\ (MgInit /\ PsOff) \/ (PsInit /\ MgOff)
  /\ KtOff /\ TsOff /\ ClOff /\ CaOff /\ StOff /\ SgOff /\ RcOff /\ WvOff

PreviewNext == MgNext \/ PsNext

SpecPreview == PreviewInit /\ [][PreviewNext]_vars

\* ------------------------------------------------- claims: preview hosts
MgLiveRuns(d) ==
  {r \in DOMAIN mgRuns :
     mgRuns[r].document = d /\ mgRuns[r].state = "inFlight" /\ ~mgRuns[r].aborted}

PsLiveRuns(d) ==
  {r \in DOMAIN psRuns :
     psRuns[r].document = d /\ psRuns[r].state = "inFlight" /\ ~psRuns[r].cancelled}

\* The manager's part of C6: per document at most one run in flight whose
\* signal is not raised, and it is the one kept in abortControllers.
MgAtMostOneLiveRun ==
  \A d \in Documents : \A r \in MgLiveRuns(d) : mgActive /\ mgControllers[d] = r

\* C6: for every document, at every moment, at most one translation run whose
\* cancellation signal has not been raised is in flight, in the TypeScript
\* manager and in the Kotlin preview service.
C6_AtMostOneLiveRunPerDocument ==
  \A d \in Documents :
    /\ Cardinality(MgLiveRuns(d)) <= 1
    /\ Cardinality(PsLiveRuns(d)) <= 1

\* ------------------------------------- claims: invalid response bodies
ClBodyWithoutContent ==
  /\ clPhase = "done" /\ clResponse.transport = "response"
  /\ isSuccessful(clResponse.status)
  /\ clResponse.body \in {"emptyBody", "malformed", "noChoices", "blankContent"}

\* C11: a successful HTTP call whose body is empty, unparseable or without
\* translated content makes translate fail with INVALID_RESPONSE, not
\* retryable; and every failure of translate carries one of the seven codes.
C11_InvalidResponseClassified ==
  /\ ClBodyWithoutContent =>
       /\ clOutcome.kind = "provider"
       /\ clOutcome.code = "INVALID_RESPONSE" /\ ~clOutcome.retryable
  /\ (clPhase = "done" /\ clOutcome.kind # "result") =>
       (clOutcome.kind = "provider" /\ clOutcome.code \in ErrorCodes)

\* The part of C11 the code keeps: a parsed body without content.
C11_ParsedBodyWithoutContent ==
  (ClBodyWithoutContent /\ clResponse.body \in {"noChoices", "blankContent"}) =>
    (clOutcome.kind = "provider" /\ clOutcome.code = "INVALID_RESPONSE"
     /\ ~clOutcome.retryable)

\* ------------------------------------------- TranslationCache (in memory)
NoValue == [undefined |-> TRUE]

\* ResolvedTranslationConfiguration
BaseConfig ==
  [apiBaseUrl |-> <<"u">>, apiKey |-> <<"k">>, model |-> <<"m">>,
   targetLanguage |-> <<"l">>, timeoutMs |-> 1]

OtherModel == [BaseConfig EXCEPT !.model = <<"n">>]

OtherLanguage == [BaseConfig EXCEPT !.targetLanguage = <<"o">>]

OtherApiKey == [BaseConfig EXCEPT !.apiKey = <<"j">>]

OtherTimeout == [BaseConfig EXCEPT !.timeoutMs = 2]

OtherKeyAndTimeout == [BaseConfig EXCEPT !.apiKey = <<"j">>, !.timeoutMs = 2]

Configs == {BaseConfig, OtherModel, OtherLanguage, OtherApiKey, OtherTimeout, OtherKeyAndTimeout}

\* The configurations under which the model calls the cache.
StoredConfigs == {BaseConfig}

LookupConfigs == {BaseConfig, OtherKeyAndTimeout}

\* prompt.fingerprint
Prompts == {<<"p">>, <<"q">>}

\* hashObject and sha256Hex: equal digests for equal inputs only.
hashObject(fields) == <<"hash", fields>>

\* TranslationCache.buildKey: uri::version::configHash
buildCacheKey(document, version, config) ==
  <<document, version,
    hashObject(<<config.apiBaseUrl, config.model, config.targetLanguage>>)>>

\* String.replace(/\r\n/g, '\n')
RECURSIVE ReplaceCrLf(_)
ReplaceCrLf(s) ==
  IF Len(s) = 0 THEN s
  ELSE IF Len(s) >= 2 /\ s[1] = "\r" /\ s[2] = "\n"
    THEN <<"\n">> \o ReplaceCrLf(SubSeq(s, 3, Len(s)))
  ELSE <<s[1]>> \o ReplaceCrLf(Tail(s))

\* TranslationCache.buildSegmentFingerprint
buildSegmentFingerprint(config, segmentMarkdown) ==
  hashObject(<<Trim(ReplaceCrLf(segmentMarkdown)), config.model, config.targetLanguage,
               config.apiBaseUrl>>)

\* Position of a key in a Map (0: absent); Maps keep insertion order.
IndexOfKey(entries, key) ==
  IF \E i \in 1..Len(entries) : entries[i].key = key
    THEN CHOOSE i \in 1..Len(entries) : entries[i].key = key
    ELSE 0

\* Map.delete
RemoveAt(entries, i) ==
  [j \in 1..(Len(entries) - 1) |-> IF j < i THEN entries[j] ELSE entries[j + 1]]

MapDelete(entries, key) ==
  IF IndexOfKey(entries, key) = 0 THEN entries
  ELSE RemoveAt(entries, IndexOfKey(entries, key))

\* Map.set: an existing key keeps its place.
MapSet(entries, entry) ==
  IF IndexOfKey(entries, entry.key) = 0 THEN Append(entries, entry)
  ELSE [entries EXCEPT ![IndexOfKey(entries, entry.key)] = entry]

Keys(entries) == {entries[i].key : i \in 1..Len(entries)}

ExpiredOneLater(entry, now, ttlMs) == now - entry.timestamp > ttlMs + 1

\* Date.now() - entry.timestamp > this.ttlMs
Expired(entry, now, ttlMs) == now - entry.timestamp > ttlMs

OldestIndexNewest(entries) ==
  CHOOSE i \in 1..Len(entries) :
    \A j \in 1..Len(entries) : entries[j].timestamp <= entries[i].timestamp

\* The loop of evictOne and of enforceSegmentCapacity: the first entry, in
\* iteration order, with the least timestamp.
OldestIndex(entries) ==
  CHOOSE i \in 1..Len(entries) :
    /\ \A j \in 1..Len(entries) : entries[i].timestamp <= entries[j].timestamp
    /\ \A j \in 1..(i - 1) : entries[j].timestamp > entries[i].timestamp

\* TranslationCache.evictOne
evictOne(entries) ==
  IF Len(entries) = 0 THEN entries ELSE RemoveAt(entries, OldestIndex(entries))

\* TranslationCache.get: the value returned and the document tier after it.
get(entries, now, ttlMs, key) ==
  LET i == IndexOfKey(entries, key)
  IN  IF i = 0 THEN [value |-> NoValue, entries |-> entries]
      ELSE IF Expired(entries[i], now, ttlMs)
        THEN [value |-> NoValue, entries |-> MapDelete(entries, key)]
      ELSE [value |-> entries[i].result, entries |-> entries]

SetWithoutEviction(entries, now, maxEntries, key, result) ==
  MapSet(entries, [key |-> key, result |-> result, timestamp |-> now])

\* TranslationCache.set
set(entries, now, maxEntries, key, result) ==
  MapSet(IF Len(entries) >= maxEntries THEN evictOne(entries) ELSE entries,
         [key |-> key, result |-> result, timestamp |-> now])

\* TranslationCache.clearForDocument, lines 255-261: the document tier.
clearDocumentEntries(entries, document) ==
  SelectSeq(entries, LAMBDA e : e.key[1] # document)

\* segmentOwners.get(fingerprint)
OwnersOf(seg, fingerprint) == {p[2] : p \in {q \in seg.owners : q[1] = fingerprint}}

\* documentSegments.get(documentUri)
FingerprintsOf(seg, document) == {p[2] : p \in {q \in seg.docSegments : q[1] = document}}

\* The two indexes are Maps from a key to a Set: owners and docSegments hold
\* the members of the Sets as pairs (key, member), ownerKeys and docKeys the
\* keys of the Maps, so that a key with an empty Set shows.

\* TranslationCache.associateSegmentWithDocument
associateSegmentWithDocument(seg, fingerprint, document) ==
  IF <<fingerprint, document>> \in seg.owners
    THEN [seg EXCEPT !.ownerKeys = @ \cup {fingerprint}]
    ELSE [seg EXCEPT !.owners = @ \cup {<<fingerprint, document>>},
                     !.ownerKeys = @ \cup {fingerprint},
                     !.docSegments = @ \cup {<<document, fingerprint>>},
                     !.docKeys = @ \cup {document}]

DeleteEntryKeepingDocumentIndex(seg, fingerprint) ==
  IF IndexOfKey(seg.entries, fingerprint) = 0 THEN seg
  ELSE [seg EXCEPT !.entries = MapDelete(seg.entries, fingerprint),
                   !.owners = {p \in seg.owners : p[1] # fingerprint},
                   !.ownerKeys = @ \ {fingerprint}]

\* TranslationCache.deleteSegmentEntry
deleteSegmentEntry(seg, fingerprint) ==
  IF IndexOfKey(seg.entries, fingerprint) = 0 THEN seg
  ELSE LET docSegments == {q \in seg.docSegments :
                             ~(q[2] = fingerprint /\ <<fingerprint, q[1]>> \in seg.owners)}
       IN  [entries |-> MapDelete(seg.entries, fingerprint),
            owners |-> {p \in seg.owners : p[1] # fingerprint},
            ownerKeys |-> seg.ownerKeys \ {fingerprint},
            docSegments |-> docSegments,
            docKeys |-> seg.docKeys \
                          {d \in OwnersOf(seg, fingerprint) :
                             \A q \in docSegments : q[1] # d}]

\* TranslationCache.enforceSegmentCapacity
enforceSegmentCapacity(seg, maxSegmentEntries) ==
  IF Len(seg.entries) <= maxSegmentEntries THEN seg
  ELSE deleteSegmentEntry(seg, seg.entries[OldestIndex(seg.entries)].key)

\* TranslationCache.getSegment: the value returned and the segment tier after it.
getSegment(seg, now, ttlMs, document, fingerprint) ==
  LET i == IndexOfKey(seg.entries, fingerprint)
  IN  IF i = 0 THEN [value |-> NoValue, seg |-> seg]
      ELSE IF Expired(seg.entries[i], now, ttlMs)
        THEN [value |-> NoValue, seg |-> deleteSegmentEntry(seg, fingerprint)]
      ELSE [value |-> seg.entries[i].result,
            seg |-> associateSegmentWithDocument(
                      [seg EXCEPT !.entries[i].timestamp = now], fingerprint, document)]

\* TranslationCache.setSegment
setSegment(seg, now, maxSegmentEntries, document, fingerprint, result) ==
  enforceSegmentCapacity(
    associateSegmentWithDocument(
      [seg EXCEPT !.entries =
         MapSet(@, [key |-> fingerprint, result |-> result, timestamp |-> now])],
      fingerprint, document),
    maxSegmentEntries)

ClearSegmentsOfDocument(seg, document) ==
  [entries |-> SelectSeq(seg.entries, LAMBDA e : e.key \notin FingerprintsOf(seg, document)),
   owners |-> {p \in seg.owners : p[2] # document},
   ownerKeys |-> {p[1] : p \in {q \in seg.owners : q[2] # document}},
   docSegments |-> {q \in seg.docSegments : q[1] # document},
   docKeys |-> seg.docKeys \ {document}]

\* TranslationCache.clearForDocument, lines 263-280: the segment tier.  An
\* entry goes when no owner is left for it.
clearSegments(seg, document) ==
  LET owners == {p \in seg.owners :
                   ~(p[2] = document /\ p[1] \in FingerprintsOf(seg, document))}
  IN  [entries |-> SelectSeq(seg.entries,
                     LAMBDA e : ~(/\ e.key \in FingerprintsOf(seg, document)
                                  /\ \A p \in owners : p[1] # e.key)),
       owners |-> owners,
       ownerKeys |-> seg.ownerKeys \
                       {f \in FingerprintsOf(seg, document) : \A p \in owners : p[1] # f},
       docSegments |-> {q \in seg.docSegments : q[1] # document},
       docKeys |-> seg.docKeys \ {document}]

\* The segment texts handed to the cache.
CaSegmentTexts == {<<"a">>, <<"b">>, <<"c">>}

Versions == 1..MaxVersion

\* The value a call stores: the result of the caStores-th translation.
StoredResult(n) == [markdown |-> <<"T", n>>, providerId |-> "provider", latencyMs |-> 1]

\* A call of the cache and what it did; a miss leaves no trace.
Call(op, outcome) == IF outcome = "miss" THEN caLast ELSE <<op, outcome>>

\* new TranslationCache(options), lines 211-215.
CaInit ==
  /\ caActive = TRUE
  /\ caNow = 0
  /\ caMaxEntries \in 1..MaxCacheEntries
  /\ caMaxSegmentEntries \in 1..MaxCacheEntries
  /\ caEntries = <<>>
  /\ caSeg = NoSegments
  /\ caStores = 0
  /\ caLast = NoCall

\* Time passes.
CaTick ==
  /\ UNCHANGED outsideCa
  /\ caActive /\ caNow < MaxTime
  /\ caNow' = caNow + 1
  /\ UNCHANGED <<caActive, caMaxEntries, caMaxSegmentEntries, caEntries, caSeg, caStores,
                 caLast>>

\* set(document, resolvedConfig, result)
CaSet(document, version, config) ==
  /\ UNCHANGED outsideCa
  /\ caActive /\ caStores < MaxStores
  /\ caStores' = caStores + 1
  /\ caEntries' = set(caEntries, caNow, caMaxEntries,
                      buildCacheKey(document, version, config), StoredResult(caStores'))
  /\ caLast' = Call("set",
                    IF Len(caEntries) >= caMaxEntries THEN "evicted" ELSE "stored")
  /\ UNCHANGED <<caActive, caNow, caMaxEntries, caMaxSegmentEntries, caSeg>>

\* get(document, resolvedConfig)
CaGet(document, version, config) ==
  /\ UNCHANGED outsideCa
  /\ caActive
  /\ LET key == buildCacheKey(document, version, config)
         got == get(caEntries, caNow, CacheTtl, key)
     IN  /\ caEntries' = got.entries
         /\ caLast' = Call("get",
                           IF got.value # NoValue THEN "hit"
                           ELSE IF key \in Keys(caEntries) THEN "expired" ELSE "miss")
  /\ UNCHANGED <<caActive, caNow, caMaxEntries, caMaxSegmentEntries, caSeg, caStores>>

\* setSegment(document, resolvedConfig, segmentMarkdown, result)
CaSetSegment(document, config, text) ==
  /\ UNCHANGED outsideCa
  /\ caActive /\ caStores < MaxStores
  /\ caStores' = caStores + 1
  /\ caSeg' = setSegment(caSeg, caNow, caMaxSegmentEntries, document,
                         buildSegmentFingerprint(config, text), StoredResult(caStores'))
  /\ caLast' = Call("setSegment",
                    IF Len(caSeg'.entries) <= Len(caSeg.entries)
                       /\ buildSegmentFingerprint(config, text) \notin Keys(caSeg.entries)
                      THEN "evicted" ELSE "stored")
  /\ UNCHANGED <<caActive, caNow, caMaxEntries, caMaxSegmentEntries, caEntries>>

\* getSegment(document, resolvedConfig, segmentMarkdown)
CaGetSegment(document, config, text) ==
  /\ UNCHANGED outsideCa
  /\ caActive
  /\ LET fingerprint == buildSegmentFingerprint(config, text)
         got == getSegment(caSeg, caNow, CacheTtl, document, fingerprint)
     IN  /\ caSeg' = got.seg
         /\ caLast' = Call("getSegment",
                           IF got.value # NoValue THEN "hit"
                           ELSE IF fingerprint \in Keys(caSeg.entries) THEN "expired"
                           ELSE "miss")
  /\ UNCHANGED <<caActive, caNow, caMaxEntries, caMaxSegmentEntries, caEntries, caStores>>

\* clearForDocument(document)
CaClearForDocument(document) ==
  /\ UNCHANGED outsideCa
  /\ caActive
  /\ caEntries' = clearDocumentEntries(caEntries, document)
  /\ caSeg' = clearSegments(caSeg, document)
  /\ caLast' = Call("clearForDocument",
                    IF Len(caSeg'.entries) < Len(caSeg.entries) THEN "removed"
                    ELSE IF FingerprintsOf(caSeg, document) # {} THEN "kept" ELSE "miss")
  /\ UNCHANGED <<caActive, caNow, caMaxEntries, caMaxSegmentEntries, caStores>>

CaNext ==
  \/ CaTick
  \/ \E d \in Documents : \E v \in Versions : \E c \in StoredConfigs : CaSet(d, v, c)
  \/ \E d \in Documents : \E v \in Versions : \E c \in LookupConfigs : CaGet(d, v, c)
  \/ \E d \in Documents : \E c \in StoredConfigs : \E t \in CaSegmentTexts :
       CaSetSegment(d, c, t)
  \/ \E d \in Documents : \E c \in LookupConfigs : \E t \in CaSegmentTexts : CaGetSegment(d, c, t)
  \/ \E d \in Documents : CaClearForDocument(d)

CaOnly == CaInit /\ KtOff /\ TsOff /\ ClOff /\ MgOff /\ PsOff /\ StOff /\ SgOff /\ RcOff /\ WvOff

SpecCache == CaOnly /\ [][CaNext]_vars

\* ---------------------------------------------------------------------
\* The document tier as the preview manager calls it
\* ---------------------------------------------------------------------

\* A render request: the document, its version, the resolved configuration
\* and the prompt in force.
Requests == [document : Documents, version : Versions, config : Configs, prompt : Prompts]

\* A result no action of the model stores.
ProbeResult == StoredResult(0)

\* render: this.cache.get(context.document, context.resolvedConfig)
cacheGet(entries, now, request) ==
  get(entries, now, CacheTtl,
      buildCacheKey(request.document, request.version, request.config))

\* render: this.cache.set(context.document, context.resolvedConfig, result)
cacheSet(entries, now, maxEntries, request, result) ==
  set(entries, now, maxEntries,
      buildCacheKey(request.document, request.version, request.config), result)

\* C12: for one document and version, a request whose targetLanguage, model
\* or prompt fingerprint differs from the request a value was stored for
\* does not get that value from the document tier.
C12_ChangedRequestMisses ==
  caActive =>
    \A s \in Requests : \A g \in Requests :
      ( /\ s.document = g.document
        /\ s.version = g.version
        /\ \/ s.config.targetLanguage # g.config.targetLanguage
           \/ s.config.model # g.config.model
           \/ s.prompt # g.prompt )
      => cacheGet(cacheSet(caEntries, caNow, caMaxEntries, s, ProbeResult),
                  caNow, g).value # ProbeResult

\* ---------------------------------------------------------------------
\* TranslationService.translateDocument beside a populated segment cache
\* ---------------------------------------------------------------------

\* The fingerprint under which the cache files segment j of the run.
KtFingerprint(j) == buildSegmentFingerprint(BaseConfig, SegmentText(j))

\* The segment tier after an earlier run stored its first n segments.
RECURSIVE CachedBefore(_)
CachedBefore(n) ==
  IF n = 0 THEN NoSegments
  ELSE setSegment(CachedBefore(n - 1), 0, MaxSegments, 1, KtFingerprint(n), StoredResult(n))

\* A run about to start, the cache holding the first n of its segments.
KtCachedInit ==
  /\ KtInit /\ TsOff /\ ClOff /\ MgOff /\ PsOff /\ StOff /\ SgOff /\ RcOff /\ WvOff
  /\ caActive = TRUE /\ caNow = 0
  /\ caMaxEntries = MaxCacheEntries /\ caMaxSegmentEntries = MaxSegments
  /\ caEntries = <<>>
  /\ \E n \in 0..MaxSegments :
       /\ caSeg = CachedBefore(n)
       /\ caStores = n
       /\ caLast = IF n = 0 THEN NoCall ELSE <<"setSegment", "stored">>

\* translateDocument and translateSegmentWithRetry make no call of the cache.
SpecKtCached == KtCachedInit /\ [][KtNext]_vars

\* The unexpired entry the segment tier holds for segment j, if any.
KtCachedEntry(j) ==
  LET i == IndexOfKey(caSeg.entries, KtFingerprint(j))
  IN  IF i # 0 /\ ~Expired(caSeg.entries[i], caNow, CacheTtl)
        THEN caSeg.entries[i] ELSE NoValue

\* C13: a segment whose fingerprint the segment cache holds unexpired is
\* emitted with wasCached = true and no recovery, and no client call is made
\* for its index.
C13_CachedSegmentServedFromCache ==
  \A j \in DOMAIN ktCallLog :
    KtCachedEntry(j) # NoValue =>
      /\ ktCallLog[j] = <<>>
      /\ \A k \in KtEmissionsOf(j - 1) :
           ktEmitted[k].wasCached /\ ktEmitted[k].recovery = NoRecovery

\* C14: a segment that ends in a recovery is served from the segment cache
\* with recovery type "cacheFallback" when the cache holds its fingerprint,
\* and gets a placeholder only when it does not.
C14_ExhaustedSegmentFallsBackToCache ==
  \A k \in 1..Len(ktEmitted) :
    LET u == ktEmitted[k]
        i == IndexOfKey(caSeg.entries, KtFingerprint(u.segmentIndex + 1))
    IN  u.recovery # NoRecovery =>
          IF i # 0
            THEN /\ u.recovery.type = "cacheFallback"
                 /\ u.markdown = caSeg.entries[i].result.markdown
            ELSE u.recovery.type = "placeholder"

\* ---------------------------------------------------------------------
\* Properties of the two tiers of TranslationCache
\* ---------------------------------------------------------------------

\* C15: a lookup of an entry whose age exceeds ttlMs is a miss in both tiers,
\* and the lookup removes the entry: from the document tier, and in the
\* segment tier from the entries and from both ownership indexes.  Every
\* other entry stays as it was.
C15_ExpiredEntryIsMissAndRemoved ==
  caActive =>
    /\ \A i \in 1..Len(caEntries) :
         LET e == caEntries[i]
             got == get(caEntries, caNow, CacheTtl, e.key)
         IN  caNow - e.timestamp > CacheTtl =>
               /\ got.value = NoValue
               /\ got.entries = RemoveAt(caEntries, i)
    /\ \A i \in 1..Len(caSeg.entries) : \A d \in Documents :
         LET e == caSeg.entries[i]
             got == getSegment(caSeg, caNow, CacheTtl, d, e.key)
         IN  caNow - e.timestamp > CacheTtl =>
               /\ got.value = NoValue
               /\ got.seg.entries = RemoveAt(caSeg.entries, i)
               /\ got.seg.owners = {p \in caSeg.owners : p[1] # e.key}
               /\ got.seg.docSegments = {q \in caSeg.docSegments : q[2] # e.key}

\* A lookup has just found an expired entry and removed it, the other tier
\* holding an entry too.
C15_Witness ==
  \/ caLast = <<"getSegment", "expired">> /\ caEntries # <<>>
  \/ caLast = <<"get", "expired">> /\ caSeg.entries # <<>>

\* C16: the document tier never holds more than maxEntries entries and the
\* segment tier never more than maxSegmentEntries, each bound on its own.
C16_TiersWithinCapacity ==
  caActive =>
    /\ Len(caEntries) <= caMaxEntries
    /\ Len(caSeg.entries) <= caMaxSegmentEntries

\* A store into a full tier has just evicted, and the other tier is full as
\* well.
C16_Witness ==
  /\ caLast \in {<<"set", "evicted">>, <<"setSegment", "evicted">>}
  /\ Len(caEntries) = caMaxEntries
  /\ Len(caSeg.entries) = caMaxSegmentEntries

\* The least timestamp among the entries of a tier.
IsOldest(entries, i) == \A j \in 1..Len(entries) : entries[i].timestamp <= entries[j].timestamp

\* C17: a store that evicts removes exactly one entry, one whose timestamp
\* is the least of its tier whatever the document, and leaves the others as
\* they were; the entry setSegment has just stored is never the one evicted.
C17_EvictsOneOldestEntry ==
  caActive =>
    /\ \A d \in Documents : \A v \in Versions :
         LET key == buildCacheKey(d, v, BaseConfig)
             stored == [key |-> key, result |-> ProbeResult, timestamp |-> caNow]
             after == set(caEntries, caNow, caMaxEntries, key, ProbeResult)
         IN  IF Len(caEntries) >= caMaxEntries
               THEN \E i \in 1..Len(caEntries) :
                      /\ IsOldest(caEntries, i)
                      /\ after = MapSet(RemoveAt(caEntries, i), stored)
               ELSE after = MapSet(caEntries, stored)
    /\ \A d \in Documents : \A t \in CaSegmentTexts :
         LET fingerprint == buildSegmentFingerprint(BaseConfig, t)
             stored == [key |-> fingerprint, result |-> ProbeResult, timestamp |-> caNow]
             after == setSegment(caSeg, caNow, caMaxSegmentEntries, d, fingerprint,
                                 ProbeResult)
         IN  /\ IndexOfKey(after.entries, fingerprint) # 0
             /\ after.entries[IndexOfKey(after.entries, fingerprint)] = stored
             /\ IF /\ Len(caSeg.entries) >= caMaxSegmentEntries
                   /\ fingerprint \notin Keys(caSeg.entries)
                  THEN \E i \in 1..Len(caSeg.entries) :
                         /\ IsOldest(caSeg.entries, i)
                         /\ after.entries = Append(RemoveAt(caSeg.entries, i), stored)
                  ELSE after.entries = MapSet(caSeg.entries, stored)

\* setSegment has just evicted from a segment tier of two entries whose
\* timestamps differ.
C17_Witness ==
  /\ caLast = <<"setSegment", "evicted">>
  /\ Len(caSeg.entries) = 2
  /\ caSeg.entries[1].timestamp # caSeg.entries[2].timestamp

\* C18: clearForDocument(d) removes from the segment tier exactly the entries
\* whose only owner is d, an entry another document owns stays retrievable
\* with its value, every document-tier entry of d goes and the document-tier
\* entries of other documents stay.
C18_ClearRemovesOnlyOwnedEntries ==
  caActive =>
    \A d \in Documents :
      LET after == clearSegments(caSeg, d)
          entries == clearDocumentEntries(caEntries, d)
      IN  /\ Keys(after.entries)
               = {f \in Keys(caSeg.entries) : OwnersOf(caSeg, f) # {d}}
          /\ \A f \in Keys(after.entries) : \A o \in Documents :
               getSegment(after, caNow, CacheTtl, o, f).value
                 = getSegment(caSeg, caNow, CacheTtl, o, f).value
          /\ \A f \in Keys(after.entries) :
               /\ after.entries[IndexOfKey(after.entries, f)]
                    = caSeg.entries[IndexOfKey(caSeg.entries, f)]
               /\ OwnersOf(after, f) = OwnersOf(caSeg, f) \ {d}
          /\ \A i \in 1..Len(entries) : entries[i].key[1] # d
          /\ \A i \in 1..Len(caEntries) :
               caEntries[i].key[1] # d =>
                 \E k \in 1..Len(entries) : entries[k] = caEntries[i]

\* clearForDocument has just left in place an entry the cleared document
\* shared with another one.
C18_Witness ==
  /\ caLast = <<"clearForDocument", "kept">>
  /\ caSeg.entries # <<>>

\* ---------------------------------------------------------------------
\* TranslationCacheStore: the durable store (VS Code extension and
\* JetBrains plugin)
\* ---------------------------------------------------------------------
Platforms == {"vscode", "jb"}

\* sha256Hex: equal digests for equal inputs only.
sha256Hex(input) == <<"sha256", input>>

\* Configurations whose entry files coincide with BaseConfig's or with each
\* other's: trim() drops the space, and "l|m" + "m" joins like "l" + "m|m".
SpacedLanguage == [BaseConfig EXCEPT !.targetLanguage = <<"l", " ">>]

PipeInLanguage == [BaseConfig EXCEPT !.targetLanguage = <<"l", "|", "m">>]

PipeInModel == [BaseConfig EXCEPT !.model = <<"m", "|", "m">>]

SavedConfigs == {BaseConfig, SpacedLanguage, PipeInLanguage, PipeInModel}

LoadedConfigs == SavedConfigs \cup {OtherKeyAndTimeout}

\* documentText
DocumentTexts == {<<"x">>, <<"y">>}

\* The arguments of load and save: document (or file), documentText,
\* resolvedConfig, prompt.
StoreRequests(configs) ==
  [document : Documents, text : DocumentTexts, config : configs, prompt : Prompts]

\* document.uri.toString() and document.uri.fsPath; file.path
DocumentUri(document) == <<"uri", document>>

FilePath(document) == <<"path", document>>

\* The identity load compares: fileUri in the extension, filePath in the plugin.
DocumentIdentity(platform, document) ==
  IF platform = "vscode" THEN DocumentUri(document) ELSE FilePath(document)

\* The TranslationResult a call saves.
TranslatedDocument(n) ==
  [markdown |-> <<"T", n>>, html |-> <<"<p>", "T", n, "</p>">>,
   providerId |-> "provider", latencyMs |-> 1, recoveries |-> <<>>]

\* resolvePaths (entryDir); cacheRoot.resolve(sha256Hex(file.path))
entryDir(platform, document) ==
  IF platform = "vscode"
    THEN <<"storageRoot", "translation-cache", sha256Hex(<<"workspace">>),
           sha256Hex(DocumentUri(document))>>
    ELSE <<"cacheRoot", sha256Hex(FilePath(document))>>

ConfigKeyWithApiKey(config, fingerprint) ==
  sha256Hex(JoinToString(<<Trim(config.targetLanguage), Trim(config.model),
                           Trim(fingerprint), Trim(config.apiKey)>>, <<"|">>))

\* The configKey of resolvePaths and of resolveEntryPath.
configKey(config, fingerprint) ==
  sha256Hex(JoinToString(<<Trim(config.targetLanguage), Trim(config.model),
                           Trim(fingerprint)>>, <<"|">>))

\* resolvePaths (entryUri); resolveEntryPath
resolveEntryPath(platform, request) ==
  [dir |-> entryDir(platform, request.document),
   name |-> <<configKey(request.config, request.prompt), ".json">>]

\* The entry save builds: CachedTranslationEntry, CachedTranslation.
CachedTranslation(platform, request, result, now) ==
  IF platform = "vscode"
    THEN [fileUri |-> DocumentUri(request.document),
          filePath |-> FilePath(request.document),
          contentHash |-> sha256Hex(request.text),
          targetLanguage |-> request.config.targetLanguage,
          model |-> request.config.model,
          promptFingerprint |-> request.prompt,
          markdown |-> result.markdown,
          html |-> result.html,
          providerId |-> result.providerId,
          latencyMs |-> result.latencyMs,
          recoveries |-> result.recoveries,
          updatedAt |-> now]
    ELSE [filePath |-> FilePath(request.document),
          documentLabel |-> <<"label", request.document>>,
          contentHash |-> sha256Hex(request.text),
          targetLanguage |-> request.config.targetLanguage,
          model |-> request.config.model,
          promptFingerprint |-> request.prompt,
          markdown |-> result.markdown,
          html |-> result.html,
          providerId |-> result.providerId,
          latencyMs |-> result.latencyMs,
          recoveries |-> result.recoveries,
          updatedAt |-> now]

\* JSON.stringify, gson.toJson
Stringify(entry) == <<"json", entry>>

\* parseEntry, gson.fromJson under runCatching: undefined for what is no JSON.
parseEntry(raw) == IF Len(raw) = 2 /\ raw[1] = "json" THEN raw[2] ELSE NoValue

\* readFile, Files.exists / readString: the file at a path, if any.
FilesAt(files, path) == {f \in files : f.path = path}

\* The identity field of a parsed entry.
EntryIdentity(platform, entry) ==
  IF platform = "vscode" THEN entry.fileUri ELSE entry.filePath

LoadIgnoringContentHash(platform, files, request) ==
  LET found == FilesAt(files, resolveEntryPath(platform, request))
  IN  IF found = {} THEN NoValue
      ELSE LET entry == parseEntry((CHOOSE f \in found : TRUE).content)
           IN  IF entry = NoValue THEN NoValue
               ELSE IF \/ EntryIdentity(platform, entry)
                            # DocumentIdentity(platform, request.document)
                       \/ entry.targetLanguage # request.config.targetLanguage
                       \/ entry.model # request.config.model
                       \/ entry.promptFingerprint # request.prompt
                 THEN NoValue
               ELSE entry

\* TranslationCacheStore.load
load(platform, files, request) ==
  LET found == FilesAt(files, resolveEntryPath(platform, request))
  IN  IF found = {} THEN NoValue
      ELSE LET entry == parseEntry((CHOOSE f \in found : TRUE).content)
           IN  IF entry = NoValue THEN NoValue
               ELSE IF \/ EntryIdentity(platform, entry)
                            # DocumentIdentity(platform, request.document)
                       \/ entry.contentHash # sha256Hex(request.text)
                       \/ entry.targetLanguage # request.config.targetLanguage
                       \/ entry.model # request.config.model
                       \/ entry.promptFingerprint # request.prompt
                 THEN NoValue
               ELSE entry

\* TranslationCacheStore.save: writeFile replaces what the path held.
save(platform, files, request, result, now) ==
  LET path == resolveEntryPath(platform, request)
  IN  (files \ FilesAt(files, path))
        \cup {[path |-> path,
               content |-> Stringify(CachedTranslation(platform, request, result, now))]}

\* TranslationCacheStore.clearForDocument, clearForFile: the entry directory
\* goes with all its files.
clearForFile(platform, files, document) ==
  {f \in files : f.path.dir # entryDir(platform, document)}

\* new TranslationCacheStore(...)
StInit ==
  /\ stPlatform \in Platforms
  /\ stFiles = {}
  /\ stSaves = 0
  /\ stWritten = {}
  /\ stLast = NoCall

StSave(request) ==
  /\ UNCHANGED outsideSt
  /\ stPlatform # "off" /\ stSaves < MaxSaves
  /\ stSaves' = stSaves + 1
  /\ stFiles' = save(stPlatform, stFiles, request, TranslatedDocument(stSaves'), stSaves')
  /\ stWritten' =
       {w \in stWritten : w.path # resolveEntryPath(stPlatform, request)}
         \cup {[path |-> resolveEntryPath(stPlatform, request), request |-> request,
                result |-> TranslatedDocument(stSaves')]}
  /\ stLast' = <<"save", IF FilesAt(stFiles, resolveEntryPath(stPlatform, request)) = {}
                           THEN "stored" ELSE "overwritten">>
  /\ UNCHANGED stPlatform

\* load changes no file; a miss on an absent file leaves no trace.  Every
\* save is made with BaseConfig's apiKey and timeoutMs.
StLoad(request) ==
  /\ UNCHANGED outsideSt
  /\ stPlatform # "off"
  /\ stLast' =
       IF load(stPlatform, stFiles, request) # NoValue
         THEN <<"load", IF request.config.apiKey # BaseConfig.apiKey
                          THEN "hitOtherKey" ELSE "hit">>
       ELSE IF FilesAt(stFiles, resolveEntryPath(stPlatform, request)) # {}
         THEN <<"load", "rejected">>
       ELSE stLast
  /\ UNCHANGED <<stPlatform, stFiles, stSaves, stWritten>>

StClear(document) ==
  /\ UNCHANGED outsideSt
  /\ stPlatform # "off"
  /\ stFiles' = clearForFile(stPlatform, stFiles, document)
  /\ stWritten' = {w \in stWritten : w.path.dir # entryDir(stPlatform, document)}
  /\ stLast' = IF stFiles' # stFiles THEN <<"clear", "removed">> ELSE stLast
  /\ UNCHANGED <<stPlatform, stSaves>>

StNext ==
  \/ \E request \in StoreRequests(SavedConfigs) : StSave(request)
  \/ \E request \in StoreRequests(LoadedConfigs) : StLoad(request)
  \/ \E document \in Documents : StClear(document)

StOnly == StInit /\ KtOff /\ TsOff /\ ClOff /\ MgOff /\ PsOff /\ CaOff /\ SgOff /\ RcOff /\ WvOff

SpecStore == StOnly /\ [][StNext]_vars

\* Two resolved configurations that differ at most in apiKey and timeoutMs.
DifferOnlyInSecrets(c1, c2) ==
  /\ c1.apiBaseUrl = c2.apiBaseUrl
  /\ c1.model = c2.model
  /\ c1.targetLanguage = c2.targetLanguage

\* C19: for two resolved configurations that differ only in apiKey or
\* timeoutMs the document-tier key, the segment fingerprint and the path of
\* the durable entry are the same, what is stored under one is returned
\* under the other in each tier and in the durable store, and the persisted
\* entry has no apiKey or timeoutMs field and does not vary with them.
C19_KeysIgnoreApiKeyAndTimeout ==
  stPlatform # "off" =>
    /\ \A c1 \in {BaseConfig, OtherModel} : \A c2 \in Configs :
         DifferOnlyInSecrets(c1, c2) =>
           /\ \A d \in Documents : \A v \in Versions :
                /\ buildCacheKey(d, v, c1) = buildCacheKey(d, v, c2)
                /\ get(set(<<>>, 0, 1, buildCacheKey(d, v, c1), ProbeResult), 0, CacheTtl,
                       buildCacheKey(d, v, c2)).value = ProbeResult
           /\ \A d \in Documents : \A t \in CaSegmentTexts :
                /\ buildSegmentFingerprint(c1, t) = buildSegmentFingerprint(c2, t)
                /\ getSegment(setSegment(NoSegments, 0, 1, d,
                                         buildSegmentFingerprint(c1, t), ProbeResult),
                              0, CacheTtl, d, buildSegmentFingerprint(c2, t)).value
                     = ProbeResult
    /\ \A w \in stWritten : \A c2 \in Configs \cup LoadedConfigs :
         DifferOnlyInSecrets(w.request.config, c2) =>
           LET other == [w.request EXCEPT !.config = c2]
               entry == load(stPlatform, stFiles, other)
           IN  /\ resolveEntryPath(stPlatform, other) = w.path
               /\ entry # NoValue
               /\ entry.markdown = w.result.markdown
               /\ entry.html = w.result.html
               /\ DOMAIN entry \cap {"apiKey", "timeoutMs"} = {}
               /\ CachedTranslation(stPlatform, other, w.result, entry.updatedAt) = entry

\* load has just returned, for a request with another apiKey and timeoutMs,
\* the entry saved with BaseConfig's.
C19_Witness == stLast = <<"load", "hitOtherKey">>

\* C20: load returns an entry only when its document identity, the hash of
\* the present text, targetLanguage, model and prompt fingerprint equal the
\* request's.  While the file a save(doc, text, config, prompt, r) wrote is
\* neither written again nor cleared, load with the same arguments returns
\* r's markdown and html, and load for the same document with another text,
\* targetLanguage, model or prompt fingerprint returns nothing of r: nothing
\* at all when it reads the same file, and otherwise only what a save with
\* those very arguments wrote.
C20_LoadReturnsOnlyMatchingEntry ==
  stPlatform # "off" =>
    /\ \A g \in StoreRequests(LoadedConfigs) :
         LET entry == load(stPlatform, stFiles, g)
         IN  entry # NoValue =>
               /\ EntryIdentity(stPlatform, entry) = DocumentIdentity(stPlatform, g.document)
               /\ entry.contentHash = sha256Hex(g.text)
               /\ entry.targetLanguage = g.config.targetLanguage
               /\ entry.model = g.config.model
               /\ entry.promptFingerprint = g.prompt
    /\ \A w \in stWritten :
         /\ load(stPlatform, stFiles, w.request) # NoValue
         /\ load(stPlatform, stFiles, w.request).markdown = w.result.markdown
         /\ load(stPlatform, stFiles, w.request).html = w.result.html
         /\ \A g \in [document : {w.request.document}, text : DocumentTexts,
                      config : LoadedConfigs, prompt : Prompts] :
              ( \/ g.text # w.request.text
                \/ g.config.targetLanguage # w.request.config.targetLanguage
                \/ g.config.model # w.request.config.model
                \/ g.prompt # w.request.prompt )
              => LET entry == load(stPlatform, stFiles, g)
                 IN  IF resolveEntryPath(stPlatform, g) = w.path
                       THEN entry = NoValue
                       ELSE entry # NoValue =>
                              \E o \in stWritten :
                                /\ o.path = resolveEntryPath(stPlatform, g)
                                /\ o.request.text = g.text
                                /\ o.request.config.targetLanguage = g.config.targetLanguage
                                /\ o.request.config.model = g.config.model
                                /\ o.request.prompt = g.prompt
                                /\ entry.markdown = o.result.markdown

\* load has just refused the entry file of its path: the file was saved for
\* another text or for a configuration whose path coincides; an earlier
\* entry of the same document is still in place.
C20_Witness ==
  /\ stLast = <<"load", "rejected">>
  /\ Cardinality(stFiles) = 2
  /\ \A f \in stFiles : \A h \in stFiles : f.path.dir = h.path.dir

\* ---------------------------------------------------------------------
\* TranslationCacheStore over a file system that fails
\* ---------------------------------------------------------------------

\* A result no save of the model writes.
ProbeDocumentResult == TranslatedDocument(0)

\* What a step that may throw ends with.
Returned(value) == [threw |-> FALSE, miss |-> FALSE, value |-> value]

Thrown == [threw |-> TRUE, miss |-> FALSE, value |-> NoValue]

\* return undefined
Miss == [threw |-> FALSE, miss |-> TRUE, value |-> NoValue]

Rethrow(attempt) == attempt

\* try { ... } catch (error) { logger.warn(...); return undefined }
CatchToUndefined(attempt) ==
  IF attempt.threw THEN [attempt EXCEPT !.threw = FALSE, !.miss = TRUE] ELSE attempt

ReadFaults == {"none", "readError"}

\* createDirectory fails; writeFile fails before it writes; writeFile fails
\* after it has written a part of the entry.
WriteFaults == {"none", "createDirectory", "writeFile", "truncatedWrite"}

TruncatedContent == <<"{">>

\* vscode.workspace.fs.readFile: throws FileNotFound for an absent file and
\* another error when the read fails.
readFile(files, path, fault) ==
  IF fault = "readError" \/ FilesAt(files, path) = {} THEN Thrown
  ELSE Returned((CHOOSE f \in FilesAt(files, path) : TRUE).content)

\* JSON.parse(decoder.decode(raw))
JsonParse(raw) ==
  IF Len(raw) = 2 /\ raw[1] = "json" THEN Returned(raw[2]) ELSE Thrown

\* The comparison of load, lines 64-72.
EntryMatches(platform, entry, request) ==
  /\ EntryIdentity(platform, entry) = DocumentIdentity(platform, request.document)
  /\ entry.contentHash = sha256Hex(request.text)
  /\ entry.targetLanguage = request.config.targetLanguage
  /\ entry.model = request.config.model
  /\ entry.promptFingerprint = request.prompt

\* TranslationCacheStore.load with its try blocks: what it returns, or that
\* it throws.
loadAttempt(platform, files, request, fault) ==
  LET read == CatchToUndefined(readFile(files, resolveEntryPath(platform, request), fault))
  IN  IF read.threw \/ read.miss THEN read
      ELSE LET parsed == CatchToUndefined(JsonParse(read.value))
           IN  IF parsed.threw \/ parsed.miss THEN parsed
               ELSE IF EntryMatches(platform, parsed.value, request) THEN parsed
               ELSE Miss

\* createDirectory and writeFile of save: the files they leave, and whether
\* they throw.
writeEntry(platform, files, request, result, now, fault) ==
  LET path == resolveEntryPath(platform, request)
  IN  IF fault = "none"
        THEN [threw |-> FALSE, miss |-> FALSE, value |-> NoValue,
              files |-> save(platform, files, request, result, now)]
      ELSE IF fault = "truncatedWrite"
        THEN [threw |-> TRUE, miss |-> FALSE, value |-> NoValue,
              files |-> (files \ FilesAt(files, path))
                          \cup {[path |-> path, content |-> TruncatedContent]}]
      ELSE [threw |-> TRUE, miss |-> FALSE, value |-> NoValue, files |-> files]

\* TranslationCacheStore.save with its try block.
saveAttempt(platform, files, request, result, now, fault) ==
  CatchToUndefined(writeEntry(platform, files, request, result, now, fault))

StSaveAttempt(request, fault) ==
  /\ UNCHANGED outsideSt
  /\ stPlatform # "off" /\ stSaves < MaxSaves
  /\ stSaves' = stSaves + 1
  /\ LET path == resolveEntryPath(stPlatform, request)
         attempt == saveAttempt(stPlatform, stFiles, request, TranslatedDocument(stSaves'),
                                stSaves', fault)
     IN  /\ stFiles' = attempt.files
         /\ stWritten' =
              IF fault = "none"
                THEN {w \in stWritten : w.path # path}
                       \cup {[path |-> path, request |-> request,
                              result |-> TranslatedDocument(stSaves')]}
              ELSE IF fault = "truncatedWrite" THEN {w \in stWritten : w.path # path}
              ELSE stWritten
         /\ stLast' = <<"save", IF attempt.threw THEN "threw"
                                ELSE IF fault = "none" THEN "stored" ELSE "swallowed">>
  /\ UNCHANGED stPlatform

StLoadAttempt(request, fault) ==
  /\ UNCHANGED outsideSt
  /\ stPlatform # "off"
  /\ LET found == FilesAt(stFiles, resolveEntryPath(stPlatform, request))
         attempt == loadAttempt(stPlatform, stFiles, request, fault)
     IN  stLast' =
           IF attempt.threw THEN <<"load", "threw">>
           ELSE IF ~attempt.miss THEN <<"load", "hit">>
           ELSE IF fault = "readError" THEN <<"load", "readError">>
           ELSE IF found = {} THEN stLast
           ELSE IF (CHOOSE f \in found : TRUE).content = TruncatedContent
             THEN <<"load", "corrupt">>
           ELSE <<"load", "rejected">>
  /\ UNCHANGED <<stPlatform, stFiles, stSaves, stWritten>>

StFaultyNext ==
  \/ \E request \in StoreRequests(SavedConfigs) : \E fault \in WriteFaults :
       StSaveAttempt(request, fault)
  \/ \E request \in StoreRequests(SavedConfigs) : \E fault \in ReadFaults :
       StLoadAttempt(request, fault)
  \/ \E document \in Documents : StClear(document)

SpecStoreFaults == StOnly /\ [][StFaultyNext]_vars

\* C21: load returns a miss and does not throw when the entry file is
\* missing, cannot be read or does not parse, and save returns without
\* throwing when creating the directory or writing the file fails.
C21_StoreFailuresAreSwallowed ==
  stPlatform # "off" =>
    /\ stLast[2] # "threw"
    /\ \A request \in StoreRequests(SavedConfigs) :
         LET found == FilesAt(stFiles, resolveEntryPath(stPlatform, request))
         IN  /\ \A fault \in ReadFaults :
                  LET attempt == loadAttempt(stPlatform, stFiles, request, fault)
                  IN  /\ ~attempt.threw
                      /\ ( \/ fault = "readError"
                           \/ found = {}
                           \/ \E f \in found : f.content = TruncatedContent )
                         => attempt.miss
                      /\ ( fault = "none" /\ found # {}
                           /\ \A f \in found : f.content # TruncatedContent )
                         => IF attempt.miss
                              THEN load(stPlatform, stFiles, request) = NoValue
                              ELSE attempt.value = load(stPlatform, stFiles, request)
             /\ \A fault \in WriteFaults :
                  ~saveAttempt(stPlatform, stFiles, request, ProbeDocumentResult, stSaves,
                               fault).threw

\* load has just read an entry file that a failed write left truncated, and
\* reported a miss.
C21_Witness ==
  /\ stLast = <<"load", "corrupt">>
  /\ \E f \in stFiles : f.content = TruncatedContent

\* ---------------------------------------------------------------------
\* MarkdownSegmenter.split (Kotlin, base and adaptive) and
\* TranslationService.splitIntoSegments (TypeScript)
\* ---------------------------------------------------------------------

\* Longest document of the model, in lines.
MaxDocLines == 5

\* "W" stands for a run of RunLength letters; every other character counts 1.
RunLength == 699

\* val minChars = 500
minChars == 500

\* The hard maximum of a merged segment that the specification names.
MaxChars == 1400

\* The fence marker, three backticks; the backtick is written "^".
Fence == <<"^", "^", "^">>

LineKinds == {<<>>, <<" ">>, <<"a">>, <<"W">>, Fence}

LineEndings == {<<"\n">>, <<"\r", "\n">>}

\* Every document of at most MaxDocLines lines, with LF or CRLF line ends.
SgMarkdowns ==
  UNION {{JoinToString(lines, ending) : lines \in [1..n -> LineKinds], ending \in LineEndings}
         : n \in 1..MaxDocLines}

RECURSIVE Length(_)
Length(s) ==
  IF s = <<>> THEN 0 ELSE (IF Head(s) = "W" THEN RunLength ELSE 1) + Length(Tail(s))

StartsWith(s, prefix) ==
  Len(s) >= Len(prefix) /\ SubSeq(s, 1, Len(prefix)) = prefix

RemoveSuffix(s, suffix) ==
  IF Len(s) >= Len(suffix) /\ SubSeq(s, Len(s) - Len(suffix) + 1, Len(s)) = suffix
    THEN SubSeq(s, 1, Len(s) - Len(suffix))
    ELSE s

\* String.split("\n")
RECURSIVE SplitAtNewline(_)
SplitAtNewline(s) ==
  IF \A k \in 1..Len(s) : s[k] # "\n" THEN <<s>>
  ELSE LET k == CHOOSE k \in 1..Len(s) : s[k] = "\n" /\ \A j \in 1..(k - 1) : s[j] # "\n"
       IN  <<SubSeq(s, 1, k - 1)>> \o SplitAtNewline(SubSeq(s, k + 1, Len(s)))

\* markdown.split("\n") followed by rawLine.removeSuffix("\r") on every line
KtLines(markdown) ==
  LET raw == SplitAtNewline(markdown)
  IN  [k \in 1..Len(raw) |-> RemoveSuffix(raw[k], <<"\r">>)]

\* markdown.split(/\r?\n/): a "\r" goes only when a "\n" follows it
TsLines(markdown) ==
  LET raw == SplitAtNewline(markdown)
  IN  [k \in 1..Len(raw) |-> IF k < Len(raw) THEN RemoveSuffix(raw[k], <<"\r">>) ELSE raw[k]]

\* A segment: its text, and as history the numbers of the document lines
\* and the number of paragraphs it was built from.
Paragraph(lines, buffer) ==
  [text |-> JoinToString([k \in 1..Len(buffer) |-> lines[buffer[k]]], <<"\n">>),
   lines |-> buffer,
   paragraphs |-> 1]

WholeDocument(markdown, lines) ==
  [text |-> markdown, lines |-> [k \in 1..Len(lines) |-> k], paragraphs |-> 1]

Scanning == [segments |-> <<>>, buffer |-> <<>>, inFence |-> FALSE]

FlushKeepingBuffer(lines, scanned) ==
  IF scanned.buffer # <<>>
    THEN [scanned EXCEPT !.segments = Append(@, Paragraph(lines, scanned.buffer))]
    ELSE scanned

\* fun flush()
flush(lines, scanned) ==
  IF scanned.buffer # <<>>
    THEN [scanned EXCEPT !.segments = Append(@, Paragraph(lines, scanned.buffer)),
                         !.buffer = <<>>]
    ELSE scanned

\* fun flushParagraph()
flushParagraph(lines, scanned) ==
  IF scanned.buffer = <<>> THEN scanned
  ELSE LET paragraph == Paragraph(lines, scanned.buffer)
       IN  IF Trim(paragraph.text) # <<>>
             THEN [scanned EXCEPT !.segments = Append(@, paragraph), !.buffer = <<>>]
             ELSE [scanned EXCEPT !.buffer = <<>>]

\* flush() of the base segmenters, flushParagraph() of the adaptive one.
Flushed(lines, scanned, adaptive) ==
  IF adaptive THEN flushParagraph(lines, scanned) ELSE flush(lines, scanned)

BlankAnywhere(inFence, trimmed) == trimmed = <<>>

\* if (!inFence && trimmed.isEmpty())
IsFlushPoint(inFence, trimmed) == ~inFence /\ trimmed = <<>>

\* The body of the loop over the lines, for line number i.
scanLine(lines, scanned, i, adaptive) ==
  LET trimmed == Trim(lines[i])
  IN  IF StartsWith(trimmed, Fence)
        THEN [scanned EXCEPT !.buffer = Append(@, i), !.inFence = ~@]
      ELSE IF IsFlushPoint(scanned.inFence, trimmed)
        THEN Flushed(lines, scanned, adaptive)
      ELSE [scanned EXCEPT !.buffer = Append(@, i)]

\* The loop over the lines and the flush that follows it.
RECURSIVE scan(_, _, _, _)
scan(lines, scanned, i, adaptive) ==
  IF i > Len(lines) THEN Flushed(lines, scanned, adaptive).segments
  ELSE scan(lines, scanLine(lines, scanned, i, adaptive), i + 1, adaptive)

\* MarkdownSegmenter.split of the plugin sources
split(markdown) ==
  LET lines == KtLines(markdown)
      segments == scan(lines, Scanning, 1, FALSE)
  IN  IF segments = <<>> /\ Trim(markdown) # <<>>
        THEN <<WholeDocument(markdown, lines)>>
        ELSE segments

\* TranslationService.splitIntoSegments
splitIntoSegments(markdown) ==
  LET lines == TsLines(markdown)
      segments == scan(lines, Scanning, 1, FALSE)
  IN  IF segments = <<>> /\ Len(Trim(markdown)) > 0
        THEN <<WholeDocument(markdown, lines)>>
        ELSE segments

EmptyBuilder == [text |-> <<>>, lines |-> <<>>, paragraphs |-> 0]

Merging == [segments |-> <<>>, current |-> EmptyBuilder]

\* a + "\n\n" + b
JoinedParagraphs(a, b) ==
  [text |-> a.text \o BlankLine \o b.text,
   lines |-> a.lines \o b.lines,
   paragraphs |-> a.paragraphs + b.paragraphs]

\* fun appendParagraph(paragraph)
appendParagraph(current, paragraph) ==
  IF current.text # <<>> THEN JoinedParagraphs(current, paragraph) ELSE paragraph

\* The body of the loop over the paragraphs.
mergeParagraph(merged, paragraph) ==
  LET current == merged.current
      paragraphLength == Length(paragraph.text)
  IN  IF current.text = <<>> /\ paragraphLength >= minChars
        THEN [merged EXCEPT !.segments = Append(@, paragraph)]
      ELSE IF current.text = <<>>
        THEN [merged EXCEPT !.current = paragraph]
      ELSE IF Length(current.text) < minChars
        THEN LET appended == appendParagraph(current, paragraph)
             IN  IF Length(appended.text) >= minChars
                   THEN [segments |-> Append(merged.segments, appended),
                         current |-> EmptyBuilder]
                   ELSE [merged EXCEPT !.current = appended]
      ELSE IF paragraphLength >= minChars
        THEN [segments |-> merged.segments \o <<current, paragraph>>,
              current |-> EmptyBuilder]
      ELSE [segments |-> Append(merged.segments, current), current |-> paragraph]

RECURSIVE mergeParagraphs(_, _)
mergeParagraphs(merged, paragraphs) ==
  IF paragraphs = <<>> THEN merged
  ELSE mergeParagraphs(mergeParagraph(merged, Head(paragraphs)), Tail(paragraphs))

EmitLeftoverAlone(merged) ==
  IF merged.current.text = <<>> THEN merged.segments
  ELSE Append(merged.segments, merged.current)

\* if (current.isNotEmpty()) { ... }
emitLeftover(merged) ==
  LET current == merged.current
      segments == merged.segments
  IN  IF current.text = <<>> THEN segments
      ELSE IF Length(current.text) < minChars /\ segments # <<>>
        THEN [segments EXCEPT ![Len(segments)] = JoinedParagraphs(@, current)]
      ELSE Append(segments, current)

\* MarkdownSegmenter.split of the adaptive segmenter
splitAdaptive(markdown) ==
  LET lines == KtLines(markdown)
      paragraphs == scan(lines, Scanning, 1, TRUE)
  IN  IF paragraphs = <<>>
        THEN (IF Trim(markdown) # <<>> THEN <<WholeDocument(markdown, lines)>> ELSE <<>>)
        ELSE emitLeftover(mergeParagraphs(Merging, paragraphs))

SgInit ==
  /\ sgMarkdown \in SgMarkdowns
  /\ sgSegmenter = "none"
  /\ sgSegments = <<>>

SgSplit ==
  /\ UNCHANGED outsideSg
  /\ sgSegmenter = "none"
  /\ sgSegmenter' = "split"
  /\ sgSegments' = split(sgMarkdown)
  /\ UNCHANGED sgMarkdown

SgSplitIntoSegments ==
  /\ UNCHANGED outsideSg
  /\ sgSegmenter = "none"
  /\ sgSegmenter' = "splitIntoSegments"
  /\ sgSegments' = splitIntoSegments(sgMarkdown)
  /\ UNCHANGED sgMarkdown

SgSplitAdaptive ==
  /\ UNCHANGED outsideSg
  /\ sgSegmenter = "none"
  /\ sgSegmenter' = "splitAdaptive"
  /\ sgSegments' = splitAdaptive(sgMarkdown)
  /\ UNCHANGED sgMarkdown

SgNext == SgSplit \/ SgSplitIntoSegments \/ SgSplitAdaptive

SgOnly == SgInit /\ KtOff /\ TsOff /\ ClOff /\ MgOff /\ PsOff /\ CaOff /\ StOff /\ RcOff /\ WvOff

SpecSegmenter == SgOnly /\ [][SgNext]_vars

\* The lines as the segmenter that has run reads them.
SgLines == IF sgSegmenter = "splitIntoSegments" THEN TsLines(sgMarkdown) ELSE KtLines(sgMarkdown)

IsFenceLine(line) == StartsWith(Trim(line), Fence)

\* Number of fence lines among the first n lines.
FencesBefore(lines, n) == Cardinality({k \in 1..n : IsFenceLine(lines[k])})

\* Line k lies in a fence: it is an opener, a closer or a line between them.
InsideFence(lines, k) ==
  IsFenceLine(lines[k]) \/ FencesBefore(lines, k) % 2 = 1

\* Lines k and k + 1 lie in the same fence, from the opener through the
\* closer or through the end of the input.
SameFence(lines, k) ==
  /\ k + 1 <= Len(lines)
  /\ FencesBefore(lines, k) % 2 = 1

SegmentOfLine(segments, k) ==
  {s \in 1..Len(segments) : \E j \in 1..Len(segments[s].lines) : segments[s].lines[j] = k}

\* C22: no segment boundary falls strictly between a fence opener and its
\* closer, or the end of the input when the fence is never closed: two
\* consecutive lines of one fence, blank or not, lie in the same segment.
C22_NoBoundaryInsideFence ==
  sgSegmenter \in {"split", "splitIntoSegments", "splitAdaptive"}
    => \A k \in 1..Len(SgLines) :
         SameFence(SgLines, k)
           => /\ SegmentOfLine(sgSegments, k) # {}
              /\ SegmentOfLine(sgSegments, k) = SegmentOfLine(sgSegments, k + 1)

\* A fence that holds a blank line was segmented.
C22_Witness ==
  /\ sgSegmenter = "split"
  /\ \E k \in 1..Len(SgLines) :
       /\ SameFence(SgLines, k)
       /\ Trim(SgLines[k]) = <<>>
       /\ k + 1 <= Len(SgLines) /\ IsFenceLine(SgLines[k + 1])
  /\ Len(sgSegments) > 1

Balanced(lines) == FencesBefore(lines, Len(lines)) % 2 = 0

\* The lines without the blank lines that lie outside every fence.
RECURSIVE KeptFrom(_, _)
KeptFrom(lines, k) ==
  IF k > Len(lines) THEN <<>>
  ELSE IF Trim(lines[k]) = <<>> /\ ~InsideFence(lines, k) THEN KeptFrom(lines, k + 1)
  ELSE <<lines[k]>> \o KeptFrom(lines, k + 1)

KeptLines(lines) == KeptFrom(lines, 1)

\* The lines of all segments, in segment order.
RECURSIVE SegmentLines(_)
SegmentLines(segments) ==
  IF segments = <<>> THEN <<>>
  ELSE SplitAtNewline(Head(segments).text) \o SegmentLines(Tail(segments))

\* C23 as stated: with balanced fences the lines of the segments are the
\* document's lines without the blank lines outside fences, for the base
\* segmenters and for the adaptive one.
C23_SegmentLinesAreKeptLines ==
  (sgSegmenter \in {"split", "splitIntoSegments", "splitAdaptive"} /\ Balanced(SgLines))
    => SegmentLines(sgSegments) = KeptLines(SgLines)

\* C23, amended: with balanced fences the lines of the segments of a base
\* segmenter are the document's lines without the blank lines outside
\* fences; the adaptive segmenter puts one blank line between the paragraphs
\* it merges, and the lines of its segments without the blank lines outside
\* fences are the document's lines without the blank lines outside fences.
C23_SegmentsKeepEveryLine ==
  (sgSegmenter \in {"split", "splitIntoSegments", "splitAdaptive"} /\ Balanced(SgLines))
    => /\ sgSegmenter # "splitAdaptive" => SegmentLines(sgSegments) = KeptLines(SgLines)
       /\ KeptLines(SegmentLines(sgSegments)) = KeptLines(SgLines)
       /\ \A s \in 1..Len(sgSegments) :
            Len(SplitAtNewline(sgSegments[s].text))
              = Len(sgSegments[s].lines) + sgSegments[s].paragraphs - 1

\* The adaptive segmenter merged two paragraphs, one of them a fence that
\* holds a blank line, of a document with a blank line outside the fence.
C23_Witness ==
  /\ sgSegmenter = "splitAdaptive"
  /\ Balanced(SgLines)
  /\ \E s \in 1..Len(sgSegments) : sgSegments[s].paragraphs > 1
  /\ \E k \in 1..Len(SgLines) : SameFence(SgLines, k) /\ Trim(SgLines[k]) = <<>>
  /\ Len(KeptLines(SgLines)) < Len(SgLines)

\* C24: every segment of the adaptive segmenter is at most MaxChars long,
\* except a segment that is one paragraph which alone is longer than
\* MaxChars; no segment merged from several paragraphs is longer.
C24_MergedSegmentWithinMaxChars ==
  sgSegmenter = "splitAdaptive"
    => \A s \in 1..Len(sgSegments) :
         Length(sgSegments[s].text) > MaxChars => sgSegments[s].paragraphs = 1

\* ---------------------------------------------------------------------
\* translateDocument on the text of a document
\* ---------------------------------------------------------------------

\* Empty, whitespace-only and non-empty documents of one and two segments.
TranslatedMarkdowns ==
  {<<>>, <<" ">>, <<"\n">>, <<" ", "\r", "\n", " ">>, <<"a">>,
   <<"a", "\n", "\n", "b", " ">>, <<"\n", "a", "\n", " ", "\n", "b", " ", "\n">>}

WholeTextAsSegment(text, segments) == <<text>>

\* if (text.trim().isEmpty()) return ...; val segments = segmenter.split(text)
segmentsToTranslate(text, segments) ==
  IF Trim(text) = <<>> THEN <<>> ELSE [k \in 1..Len(segments) |-> segments[k].text]

TranslateDocumentInit ==
  /\ sgMarkdown \in TranslatedMarkdowns
  /\ \/ /\ sgSegmenter = "split"
        /\ sgSegments = split(sgMarkdown)
        /\ ktSegments = segmentsToTranslate(sgMarkdown, sgSegments)
        /\ KtIdle /\ TsOff
     \/ /\ sgSegmenter = "splitIntoSegments"
        /\ sgSegments = splitIntoSegments(sgMarkdown)
        /\ tsSegments = segmentsToTranslate(sgMarkdown, sgSegments)
        /\ TsIdle /\ KtOff
  /\ ClOff /\ MgOff /\ PsOff /\ CaOff /\ StOff /\ RcOff /\ WvOff

SpecTranslateDocument == TranslateDocumentInit /\ [][TranslateNext]_vars

\* C25: for an empty or whitespace-only document translateDocument returns
\* the "nothing to translate" placeholder with latency 0 and calls neither
\* the client nor onPlan nor onSegment.  (The TypeScript service has no
\* onPlan; a run whose signal is aborted before it starts throws instead.)
C25_EmptyDocumentReturnsPlaceholder ==
  Trim(sgMarkdown) = <<>>
    => /\ ktStatus \notin {"off", "idle"}
            => /\ ktStatus = "returned"
               /\ ktFinal.markdown = EmptyDocumentMarkdown
               /\ ktFinal.latencyMs = 0
               /\ ktPlan = <<>> /\ ktEmitted = <<>>
               /\ ktCallLog = <<>> /\ ktDispatched = <<>>
       /\ tsPhase \notin {"off", "idle", "cancelled"}
            => /\ tsPhase = "returned"
               /\ tsFinal.markdown = EmptyDocumentMarkdown
               /\ tsFinal.latencyMs = 0
               /\ tsCalls = <<>> /\ tsEmitted = <<>>
       /\ tsPhase = "cancelled" => tsAtAbort = [calls |-> 0, emitted |-> 0]

\* The Kotlin service has returned for a document of blank lines only.
C25_Witness ==
  /\ sgMarkdown = <<" ", "\r", "\n", " ">>
  /\ ktStatus = "returned"
  /\ ktFinal = NoopResult

\* No job of the Kotlin run has called the client.
KtNoClientCall ==
  /\ \A j \in DOMAIN ktCallLog : ktCallLog[j] = <<>>
  /\ \A j \in DOMAIN ktDispatched : ktDispatched[j] = 0

\* A run on a non-empty document has called onPlan once it has started, once
\* only and with the segments of the document in order, and every update
\* carries the length of that list as totalSegments.
PlanOnce ==
  (Trim(sgMarkdown) # <<>> /\ ktStatus # "off")
    => /\ ktStatus = "idle" => ktPlan = <<>> /\ ktEmitted = <<>> /\ KtNoClientCall
       /\ ktStatus # "idle"
            => /\ ktPlan = <<[k \in 1..Len(sgSegments) |-> sgSegments[k].text]>>
               /\ ktPlan[1] # <<>>
               /\ \A e \in 1..Len(ktEmitted) :
                    ktEmitted[e].totalSegments = Len(ktPlan[1])

\* The step that calls onPlan finds no client call and no update made.
PlanPrecedesWork ==
  [][ktPlan' # ktPlan
       => /\ ktPlan = <<>> /\ ktEmitted = <<>> /\ KtNoClientCall
          /\ ktEmitted' = <<>>
          /\ \A j \in DOMAIN ktCallLog' : ktCallLog'[j] = <<>>]_vars

\* C28: for a non-empty document a run calls onPlan exactly once, with the
\* segments of the document in order, before the first client call and
\* before the first onSegment, and every update carries the length of that
\* list as totalSegments.
C28_PlanOnceBeforeWork == []PlanOnce /\ PlanPrecedesWork

\* Both segments of a two-segment document were emitted after the plan.
C28_Witness ==
  /\ Len(sgSegments) = 2
  /\ ktStatus = "returned"
  /\ Len(ktPlan) = 1 /\ Len(ktPlan[1]) = 2
  /\ Len(ktEmitted) = 2

\* ---------------------------------------------------------------------
\* refreshPreview of the Kotlin TranslationPreviewService and the refresh
\* command of the TypeScript extension: the checks before the launch
\* ---------------------------------------------------------------------

\* A value that is absent (null, undefined) or a text.
Absent == [present |-> FALSE, text |-> <<>>]

Text(chars) == [present |-> TRUE, text |-> chars]

SettingTexts == {Text(<<>>), Text(<<" ">>), Text(<<"v">>)}

\* apiKeyStore.getApiKey() may return null and secretKey ?? configKey may be
\* undefined; the settings are strings.
RefreshSettings ==
  [apiKey : {Absent} \cup SettingTexts, apiBaseUrl : SettingTexts,
   model : SettingTexts, targetLanguage : SettingTexts]

\* String?.isNullOrBlank()
isNullOrBlank(value) == ~value.present \/ Trim(value.text) = <<>>

\* !apiKey
IsFalsy(value) == ~value.present \/ value.text = <<>>

translationError(message, hint) ==
  [type |-> "translationError", message |-> message, hint |-> hint]

loadingMessage == [type |-> "setLoading", message |-> "", hint |-> ""]

\* TranslationPreviewService.refreshPreview with a file open and its
\* document readable: what it posts, launches and notifies.
refreshPreviewJb(settings) ==
  IF isNullOrBlank(settings.apiKey)
    THEN [posted |-> <<translationError("Missing API key.", "Configure settings")>>,
          launched |-> <<>>,
          notified |-> <<"Set an API key in BabelMarkdown settings before translating.">>]
  ELSE IF isNullOrBlank(settings.apiBaseUrl)
    THEN [posted |-> <<translationError("Missing API base URL.", "Configure settings")>>,
          launched |-> <<>>,
          notified |-> <<"Set an API base URL in BabelMarkdown settings before translating.">>]
  ELSE IF isNullOrBlank(settings.model)
    THEN [posted |-> <<translationError("Missing model name.", "Configure settings")>>,
          launched |-> <<>>,
          notified |-> <<"Set a model name in BabelMarkdown settings before translating.">>]
  ELSE IF isNullOrBlank(settings.targetLanguage)
    THEN [posted |-> <<translationError("Missing target language.", "Configure settings")>>,
          launched |-> <<>>,
          notified |-> <<"Set a target language in BabelMarkdown settings before translating.">>]
  ELSE [posted |-> <<loadingMessage>>, launched |-> <<settings>>, notified |-> <<>>]

\* The refresh command of the extension on a Markdown editor whose
\* translation preview is open: refreshPreview renders with force.
refreshCommandTs(settings) ==
  IF IsFalsy(settings.apiKey)
    THEN [posted |-> <<>>,
          launched |-> <<>>,
          notified |-> <<"Translation API key not set. Run \"Babel MD Viewer: Set Translation API Key\" first.">>]
    ELSE [posted |-> <<loadingMessage>>, launched |-> <<settings>>, notified |-> <<>>]

RcInit ==
  /\ rcPlatform \in {"jb", "vscode"}
  /\ rcSettings \in RefreshSettings
  /\ rcPosted = <<>> /\ rcLaunched = <<>> /\ rcNotified = <<>>

RcRefreshPreview ==
  /\ UNCHANGED outsideRc
  /\ rcPlatform = "jb" /\ rcPosted = <<>> /\ rcNotified = <<>>
  /\ LET done == refreshPreviewJb(rcSettings)
     IN  /\ rcPosted' = done.posted
         /\ rcLaunched' = done.launched
         /\ rcNotified' = done.notified
  /\ UNCHANGED <<rcPlatform, rcSettings>>

RcRefreshCommand ==
  /\ UNCHANGED outsideRc
  /\ rcPlatform = "vscode" /\ rcPosted = <<>> /\ rcNotified = <<>>
  /\ LET done == refreshCommandTs(rcSettings)
     IN  /\ rcPosted' = done.posted
         /\ rcLaunched' = done.launched
         /\ rcNotified' = done.notified
  /\ UNCHANGED <<rcPlatform, rcSettings>>

RcNext == RcRefreshPreview \/ RcRefreshCommand

RcOnly == RcInit /\ KtOff /\ TsOff /\ ClOff /\ MgOff /\ PsOff /\ CaOff /\ StOff /\ SgOff /\ WvOff

SpecRefresh == RcOnly /\ [][RcNext]_vars

RcDone == rcPosted # <<>> \/ rcNotified # <<>>

Blank(value) == ~value.present \/ Trim(value.text) = <<>>

\* The message that names the first missing setting, in the order API key,
\* API base URL, model, target language; empty when none is missing.
FirstMissing(settings) ==
  IF Blank(settings.apiKey) THEN "Missing API key."
  ELSE IF Blank(settings.apiBaseUrl) THEN "Missing API base URL."
  ELSE IF Blank(settings.model) THEN "Missing model name."
  ELSE IF Blank(settings.targetLanguage) THEN "Missing target language."
  ELSE ""

\* Both hosts report the first missing setting as a translationError with
\* the hint "Configure settings" and launch nothing.
MissingSettingIsReported(platforms) ==
  (rcPlatform \in platforms /\ RcDone)
    => /\ FirstMissing(rcSettings) # ""
            => /\ rcPosted = <<translationError(FirstMissing(rcSettings), "Configure settings")>>
               /\ rcLaunched = <<>>
       /\ \A k \in 1..Len(rcLaunched) :
            /\ ~Blank(rcLaunched[k].apiKey) /\ ~Blank(rcLaunched[k].apiBaseUrl)
            /\ ~Blank(rcLaunched[k].model) /\ ~Blank(rcLaunched[k].targetLanguage)

\* C26: when the API key, the API base URL, the model or the target language
\* is missing or blank, the refresh posts a translationError that names the
\* first missing one, with the hint "Configure settings", and launches no
\* translation; no translation is launched with any of the four blank.
C26_MissingSettingReportedBeforeLaunch == MissingSettingIsReported({"jb", "vscode"})

\* The part of C26 that holds: the Kotlin refreshPreview.
C26_KotlinReportsFirstMissingSetting == MissingSettingIsReported({"jb"})

\* ---------------------------------------------------------------------
\* claims: the messages of a run and the forced refresh
\* ---------------------------------------------------------------------
IsTerminalMessage(type) == type \in {"translationResult", "translationError"}

TerminalMessages(posted) == SelectSeq(posted, IsTerminalMessage)

\* A run in flight has posted no terminal message, and a run that ended
\* without being cancelled has posted exactly one.
OneTerminalMessage(run, ended, cancelled) ==
  /\ ~ended => TerminalMessages(run.posted) = <<>>
  /\ Len(TerminalMessages(run.posted)) <= 1
  /\ (ended /\ ~cancelled) => Len(TerminalMessages(run.posted)) = 1

OneTerminalMessagePerRun ==
  /\ mgActive
       => \A r \in DOMAIN mgRuns :
            OneTerminalMessage(mgRuns[r], mgRuns[r].state = "settled", mgRuns[r].aborted)
  /\ psActive
       => \A r \in DOMAIN psRuns :
            OneTerminalMessage(psRuns[r], psRuns[r].state = "completed",
                               psRuns[r].cancelled)

\* A run whose translateDocument returns, with or without recovered
\* segments, posts translationResult unless it was aborted.
ReturnedRunPostsResult ==
  [][/\ \A r \in DOMAIN psRuns : \A ending \in {"result", "recovered"} :
          PsRunEnds(r, ending)
            => TerminalMessages(psRuns'[r].posted) = <<"translationResult">>
     /\ \A r \in DOMAIN mgRuns :
          (MgRunSettles(r, "result") /\ ~mgRuns[r].aborted)
            => TerminalMessages(mgRuns'[r].posted) = <<"translationResult">>]_vars

\* C29: every launched run that is not cancelled posts exactly one terminal
\* message, translationResult or translationError, never both and never
\* neither; a run whose only failures were recovered segments posts
\* translationResult.
C29_OneTerminalMessagePerRun == []OneTerminalMessagePerRun /\ ReturnedRunPostsResult

\* One run of the Kotlin service posted translationResult and another one
\* translationError, neither of them cancelled.
C29_Witness ==
  /\ psActive
  /\ \E r1, r2 \in DOMAIN psRuns :
       /\ psRuns[r1].state = "completed" /\ ~psRuns[r1].cancelled
       /\ psRuns[r2].state = "completed" /\ ~psRuns[r2].cancelled
       /\ TerminalMessages(psRuns[r1].posted) = <<"translationResult">>
       /\ TerminalMessages(psRuns[r2].posted) = <<"translationError">>

\* The last render was a forced refresh: it was answered by the service.
ForcedRefreshAnswer ==
  (mgActive /\ mgLast.invalidateCache)
    => /\ mgLast.force
       /\ mgLast.answer = "service"

\* The step of a forced refresh: the document's entries are gone and a new
\* run for the document is in flight.
ForcedRefreshLaunches ==
  [][\A d \in Documents :
       MgRefreshPreview(d)
         => /\ \A key \in mgCache' : key[1] # d
            /\ Len(mgRuns') = Len(mgRuns) + 1
            /\ mgRuns'[Len(mgRuns')] = NewRun(d)]_vars

\* C30: a forced refresh is never answered from the in-memory cache: it
\* clears the entries of the document and calls the translation service,
\* also when the version is unchanged and a fresh entry is cached.
C30_ForcedRefreshCallsService == []ForcedRefreshAnswer /\ ForcedRefreshLaunches

\* A refresh found a fresh entry for the unchanged version and called the
\* service.
C30_Witness ==
  /\ mgActive
  /\ mgLast.invalidateCache /\ mgLast.hadFreshEntry /\ mgLast.versionUnchanged
  /\ mgLast.answer = "service"

\* ---------------------------------------------------------------------
\* The webview of the translation preview (translationPreview.ts) fed by
\* the messages of a run of the Kotlin service
\* ---------------------------------------------------------------------

\* "totalSegments" to null
NoHint == -1

setLoadingMessage(isLoading, totalSegments) ==
  [type |-> "setLoading", isLoading |-> isLoading, totalSegments |-> totalSegments]

\* onPlan: segments.mapIndexed { index, segment -> ... }
translationSource(segments) ==
  [type |-> "translationSource",
   segments |-> [k \in 1..Len(segments) |-> [segmentIndex |-> k - 1, markdown |-> segments[k]]]]

\* postSegmentUpdate
translationChunk(update) ==
  [type |-> "translationChunk", segmentIndex |-> update.segmentIndex,
   totalSegments |-> update.totalSegments, html |-> update.markdown]

\* refreshPreview, lines 197-220: the translationResult message.
translationResult(result) ==
  [type |-> "translationResult", html |-> result.markdown, recoveries |-> result.recoveries]

\* postError
translationErrorMessage == [type |-> "translationError", hint |-> ""]

\* The messages the service has posted to the panel so far: setLoading
\* before the launch, translationSource and setLoading in onPlan, one
\* translationChunk per onSegment in the order of the calls, and what the
\* try, catch and finally of the coroutine post once translateDocument ended.
HostMessages ==
  <<setLoadingMessage(TRUE, NoHint)>>
    \o (IF ktPlan # <<>>
          THEN <<translationSource(ktPlan[1]),
                 setLoadingMessage(TRUE, Len(ktPlan[1]))>>
          ELSE <<>>)
    \o [k \in 1..Len(ktEmitted) |-> translationChunk(ktEmitted[k])]
    \o (IF ktStatus = "returned"
          THEN <<translationResult(ktFinal), setLoadingMessage(FALSE, NoHint)>>
        ELSE IF ktStatus = "failed"
          THEN <<translationErrorMessage, setLoadingMessage(FALSE, NoHint)>>
        ELSE IF ktStatus = "cancelled"
          THEN <<setLoadingMessage(FALSE, NoHint)>>
        ELSE <<>>)

\* The output container (its chunk sections, or the html of renderHtml), the
\* counters of the streaming state, the text of the status line and the
\* pendingRetry flag.
EmptySurface ==
  [sections |-> <<>>, html |-> <<>>, totalSegments |-> 0, completedSegments |-> 0,
   status |-> "", pendingRetry |-> FALSE]

SourceSection(segment) ==
  [chunkIndex |-> segment.segmentIndex, translated |-> FALSE, content |-> segment.markdown]

TranslatedSection(payload) ==
  [chunkIndex |-> payload.segmentIndex, translated |-> TRUE, content |-> payload.html]

\* function renderSourceSegments(payload)
renderSourceSegments(surface, payload) ==
  [surface EXCEPT
     !.sections = [k \in 1..Len(payload.segments) |-> SourceSection(payload.segments[k])],
     !.html = <<>>,
     !.totalSegments = Len(payload.segments),
     !.completedSegments = 0,
     !.status = "statusInProgress"]

\* function setLoading(isLoading, documentPath, targetLanguage, segmentsHint)
setLoading(surface, isLoading, segmentsHint) ==
  IF isLoading
    THEN [surface EXCEPT
            !.sections = <<>>,
            !.html = <<>>,
            !.totalSegments = IF segmentsHint # NoHint THEN segmentsHint ELSE 0,
            !.completedSegments = 0,
            !.status = "statusInProgress"]
    ELSE IF ~surface.pendingRetry
      THEN [surface EXCEPT !.status = ""]
      ELSE surface

\* outputContainer.querySelector('[data-chunk-index="..."]'): the position of
\* the first section with the index, 0 when there is none.
querySelector(sections, chunkIndex) ==
  IF \E k \in 1..Len(sections) : sections[k].chunkIndex = chunkIndex
    THEN CHOOSE k \in 1..Len(sections) :
           /\ sections[k].chunkIndex = chunkIndex
           /\ \A j \in 1..(k - 1) : sections[j].chunkIndex # chunkIndex
    ELSE 0

\* function appendChunk(payload)
appendChunk(surface, payload) ==
  LET existing == querySelector(surface.sections, payload.segmentIndex)
  IN  [surface EXCEPT
         !.sections = IF existing # 0
                        THEN [surface.sections EXCEPT ![existing] = TranslatedSection(payload)]
                        ELSE Append(surface.sections, TranslatedSection(payload)),
         !.totalSegments = Max(surface.totalSegments, payload.totalSegments),
         !.completedSegments = Max(surface.completedSegments, payload.segmentIndex + 1),
         !.status = "statusInProgress"]

\* renderResult: recoveries of type cacheFallback or placeholder are warnings.
hasWarnings(recoveries) ==
  \E k \in 1..Len(recoveries) : recoveries[k].type \in {"cacheFallback", "placeholder"}

\* The status line renderResult writes.
CompletionSummary(recoveries) ==
  IF hasWarnings(recoveries) THEN "statusCompletedWithWarnings" ELSE "statusCompleted"

\* function renderResult(payload)
renderResult(surface, payload) ==
  [surface EXCEPT
     !.pendingRetry = FALSE,
     !.totalSegments = 0,
     !.completedSegments = 0,
     !.status = CompletionSummary(payload.recoveries),
     !.sections = <<>>,
     !.html = payload.html]

\* function renderError(payload), for a message without hint
renderError(surface, payload) ==
  [surface EXCEPT
     !.pendingRetry = FALSE,
     !.totalSegments = 0,
     !.completedSegments = 0,
     !.status = "statusLastAttempt",
     !.sections = <<>>,
     !.html = <<>>]

\* window.addEventListener('message', ...)
handleMessage(surface, message) ==
  IF message.type = "setLoading"
    THEN setLoading(surface, message.isLoading, message.totalSegments)
  ELSE IF message.type = "translationResult"
    THEN renderResult(setLoading(surface, FALSE, NoHint), message)
  ELSE IF message.type = "translationError"
    THEN renderError(setLoading(surface, FALSE, NoHint), message)
  ELSE IF message.type = "translationSource"
    THEN renderSourceSegments(surface, message)
  ELSE appendChunk(surface, message)

\* The retry button's click listener: the run starts with pendingRetry set
\* when the user asked for it with the retry button.
RetryClicked == [EmptySurface EXCEPT !.pendingRetry = TRUE, !.status = "statusInProgress"]

WvInit ==
  /\ wvHandled = 0
  /\ wvSurface \in {EmptySurface, RetryClicked}

\* The listener handles the next message of the host.
WvReceive ==
  /\ UNCHANGED outsideWv
  /\ wvHandled < Len(HostMessages)
  /\ wvHandled' = wvHandled + 1
  /\ wvSurface' = handleMessage(wvSurface, HostMessages[wvHandled + 1])

SurfaceInit ==
  /\ KtInit /\ WvInit
  /\ TsOff /\ ClOff /\ MgOff /\ PsOff /\ CaOff /\ StOff /\ SgOff /\ RcOff

SurfaceNext == KtNext \/ WvReceive

SpecSurface == SurfaceInit /\ [][SurfaceNext]_vars

SectionIndexes == [k \in 1..Len(wvSurface.sections) |-> wvSurface.sections[k].chunkIndex]

\* The chunks the listener has handled, as segment indexes.
HandledChunks ==
  {HostMessages[m].segmentIndex :
     m \in {m \in 1..wvHandled : HostMessages[m].type = "translationChunk"}}

\* The displayed sections are in ascending index order.
SectionsAscending ==
  \A j, k \in 1..Len(wvSurface.sections) : j < k => SectionIndexes[j] < SectionIndexes[k]

\* C27: once the plan messages (translationSource, then setLoading) are
\* handled, the surface holds one section per segment in index order, the
\* section of a segment shows its translation exactly when its chunk has
\* been handled, and the sections are in ascending index order whatever the
\* order in which the chunks arrive.
C27_SurfaceKeepsIndexOrder ==
  (ktPlan # <<>> /\ wvHandled >= 3)
    => /\ SectionIndexes = [k \in 1..Len(ktPlan[1]) |-> k - 1]
       /\ \A k \in 1..Len(wvSurface.sections) :
            wvSurface.sections[k].translated <=> (k - 1) \in HandledChunks
       /\ SectionsAscending

\* The part of C27 about the order alone.
C27_SectionsAscending == wvHandled >= 3 => SectionsAscending

\* --------------------------------------------- claims: closing a document
\* The runs of a document that have not settled.
MgInFlight(d) ==
  {r \in DOMAIN mgRuns : mgRuns[r].document = d /\ mgRuns[r].state = "inFlight"}

\* A run whose signal is raised has posted no result.
AbortedRunPostsNoResult ==
  \A r \in DOMAIN mgRuns :
    (mgRuns[r].aborted /\ mgRuns[r].state = "settled")
      => \A k \in 1..Len(mgRuns[r].posted) : mgRuns[r].posted[k] # "translationResult"

\* A run whose signal is raised settles without a write to the cache.
AbortedRunWritesNoCache ==
  [][\A r \in DOMAIN mgRuns :
       (mgRuns[r].aborted /\ mgRuns[r].state = "inFlight" /\ mgRuns'[r].state = "settled")
         => mgCache' \subseteq mgCache]_vars

\* Right after the close event of a document every run of the document in
\* flight has its signal raised and the cache holds no entry of the document.
CloseCancelsAndClears ==
  [][\A d \in Documents :
       MgDocumentClosed(d)
         => /\ \A r \in MgInFlight(d) : mgRuns'[r].aborted
            /\ \A key \in mgCache' : key[1] # d]_vars

\* C31: when the source document is closed its run in flight is cancelled and
\* from then on neither writes the document cache nor posts a result, and
\* right after the close event the cache holds no entry of the document.
C31_ClosedDocumentRunIsSilent ==
  []AbortedRunPostsNoResult /\ AbortedRunWritesNoCache /\ CloseCancelsAndClears

\* A document was closed while its run was in flight and its entry cached;
\* the translation of the run has since succeeded.
C31_Witness ==
  /\ mgActive
  /\ mgLast.answer = "closed" /\ mgLast.hadFreshEntry /\ mgLast.inFlight # 0
  /\ mgRuns[mgLast.inFlight].state = "settled"
  /\ mgRuns[mgLast.inFlight].posted = <<>>

\* ----------------------------------------------- claims: aborted manager run
\* C35: a run of the manager whose controller has been aborted posts neither
\* translationResult nor translationError, whether its translation call
\* succeeds, fails with a cancellation error or fails with another error.
C35_AbortedRunPostsNothing ==
  \A r \in DOMAIN mgRuns :
    (mgRuns[r].aborted /\ mgRuns[r].state = "settled") => mgRuns[r].posted = <<>>

\* ------------------------------------------- claims: versions in the cache
\* C40: every entry the manager writes to the document cache under version v
\* is the translation of the text the document had at version v, whatever
\* edits happen while the run is in flight.
C40_CachedUnderTranslatedVersion ==
  \A r \in DOMAIN mgRuns :
    \A k \in 1..Len(mgRuns[r].stored) : mgRuns[r].stored[k][2] = mgRuns[r].text

\* ------------------------------------ claims: cancelled job of the service
\* C36: once refreshPreview has cancelled a running job and launched a new
\* one, the cancelled job posts no further message to the panel, so the
\* loading state set by the new run is changed by the new run alone.
C36_CancelledJobPostsNothing ==
  \A r \in DOMAIN psRuns :
    (psRuns[r].cancelled /\ psRuns[r].state = "completed" /\ r < Len(psRuns))
      => psRuns[r].posted = <<>>

\* ------------------------------------------------ claims: the status line
\* Every message of a run that returned has been handled.
WvRunProcessed == ktStatus = "returned" /\ wvHandled = Len(HostMessages)

\* C37: once a run has completed and the preview has processed all of its
\* messages, the status line shows the completion summary written for
\* translationResult, with the warnings marker when the result has
\* recoveries; the setLoading message after the result does not erase it.
C37_StatusShowsCompletionSummary ==
  WvRunProcessed => wvSurface.status = CompletionSummary(ktFinal.recoveries)

\* ------------------------------------------- claims: adaptive merging
\* C32: with adaptive merging every emitted segment is at least minChars
\* long unless it is the only segment of the document: a trailing buffer
\* shorter than minChars is appended to the last segment, and no buffer is
\* emitted short while paragraphs follow.
C32_SegmentsReachMinChars ==
  (sgSegmenter = "splitAdaptive" /\ Len(sgSegments) >= 2)
    => \A s \in 1..Len(sgSegments) : Length(sgSegments[s].text) >= minChars

\* A document split into several segments whose last one took a short
\* trailing paragraph.
C32_Witness ==
  /\ sgSegmenter = "splitAdaptive" /\ Len(sgSegments) >= 2
  /\ LET last == sgSegments[Len(sgSegments)]
     IN  /\ last.paragraphs >= 2
         /\ Length(Trim(SgLines[last.lines[Len(last.lines)]])) < minChars

\* ------------------------------------------- claims: recoveries of a run
\* The last client call of job j returned a translation.
KtFresh(j) == ktCallLog[j] # <<>> /\ ktCallLog[j][Len(ktCallLog[j])] = "ok"

KtUpdateOf(i) == ktEmitted[CHOOSE k \in KtEmissionsOf(i) : TRUE]

\* C33: in a run that returned, the onSegment update of a segment carries a
\* recovery exactly when its output is not a fresh translation; the result's
\* recoveries hold one entry for each such segment, the one of its update,
\* and none for a freshly translated segment; the attempts of an entry is
\* the number of client calls made for the segment; the list is in
\* ascending order of segmentIndex.
C33_RecoveriesMatchSegments ==
  (ktStatus = "returned" /\ KtN >= 1) =>
    /\ \A j \in KtJobs :
         LET entries == KtRecoveriesOf(ktFinal.recoveries, j - 1)
         IN  /\ IsNull(KtUpdateOf(j - 1).recovery) <=> KtFresh(j)
             /\ Cardinality(entries) = IF KtFresh(j) THEN 0 ELSE 1
             /\ \A k \in entries :
                  /\ ktFinal.recoveries[k] = KtUpdateOf(j - 1).recovery
                  /\ ktFinal.recoveries[k].attempts = Len(ktCallLog[j])
    /\ \A k \in 1..(Len(ktFinal.recoveries) - 1) :
         ktFinal.recoveries[k].segmentIndex < ktFinal.recoveries[k + 1].segmentIndex

\* Both segments were recovered, the second one first and after more calls,
\* in a run that returned.
C33_Witness ==
  /\ ktStatus = "returned" /\ KtN = 2
  /\ Len(ktRecoveries) = 2 /\ ktRecoveries[1].segmentIndex = 1
  /\ ktRecoveries[1].attempts = 2 /\ ktRecoveries[2].attempts = 1

\* ------------------------------------------- claims: termination of a run
\* The scheduler runs every coroutine that can run, every client call
\* returns and every delay ends; nothing forces a cancellation.
KtFairness ==
  /\ WF_vars(KtStart)
  /\ WF_vars(\E j \in KtJobs : KtAcquire(j))
  /\ WF_vars(\E j \in KtJobs : \E resp \in SchedulerResponses : KtClientReturns(j, resp))
  /\ WF_vars(\E j \in KtJobs : KtDelayElapses(j))
  /\ WF_vars(KtAwaitAll)
  /\ WF_vars(KtCancelledEnd)

SpecKtFair == KtOnly /\ [][KtNext]_vars /\ KtFairness

RECURSIVE SumTo(_, _)
SumTo(counts, n) == IF n = 0 THEN 0 ELSE counts[n] + SumTo(counts, n - 1)

\* The client calls made so far in the run.
KtClientCalls == SumTo(ktAttempts, Len(ktAttempts))

KtCallsBounded == KtClientCalls <= KtN * ktRetryMax

KtTerminates == <>(ktStatus = "returned" \/ ktCancelled)

\* C34: when every client call returns and the run is not cancelled,
\* translateDocument returns, after at most segmentCount * retryMaxAttempts
\* client calls; retryable failures do not make a segment retry for ever.
C34_RunTerminates == []KtCallsBounded /\ KtTerminates

\* A run returned after every segment had used up its attempts on retryable
\* failures.
C34_Witness ==
  /\ ktStatus = "returned" /\ ~ktCancelled /\ KtN = 2 /\ ktRetryMax = 2
  /\ KtClientCalls = KtN * ktRetryMax
  /\ \A j \in KtJobs : KtAllRetryable(ktCallLog[j])

\* -------------------------------------- claims: the ownership indexes
\* C38: after any sequence of setSegment, getSegment, clearForDocument,
\* expiry and eviction, fingerprint f is in documentSegments[d] exactly when
\* d is in segmentOwners[f]; every cached segment entry has an owner and
\* every owned fingerprint has a cached entry; neither index holds an empty
\* set.
C38_OwnershipIndexesConsistent ==
  /\ \A p \in caSeg.owners : <<p[2], p[1]>> \in caSeg.docSegments
  /\ \A q \in caSeg.docSegments : <<q[2], q[1]>> \in caSeg.owners
  /\ \A f \in Keys(caSeg.entries) : OwnersOf(caSeg, f) # {}
  /\ \A p \in caSeg.owners : p[1] \in Keys(caSeg.entries)
  /\ \A f \in caSeg.ownerKeys : OwnersOf(caSeg, f) # {}
  /\ \A d \in caSeg.docKeys : FingerprintsOf(caSeg, d) # {}
  /\ \A p \in caSeg.owners : p[1] \in caSeg.ownerKeys
  /\ \A q \in caSeg.docSegments : q[1] \in caSeg.docKeys

\* A lookup has just removed an expired entry; one document still owns a
\* cached entry and another owns none.
C38_Witness ==
  /\ caLast = <<"getSegment", "expired">>
  /\ Len(caSeg.entries) >= 1
  /\ \E d \in Documents : d \notin caSeg.docKeys
  /\ \E d \in Documents : d \in caSeg.docKeys

\* ------------------------------------ claims: set on a key already cached
\* C39: a set for a document-tier key that is already cached replaces the
\* entry of that key alone; every other entry cached before the call is
\* cached after it, also when the cache holds maxEntries entries.
C39_SetOnCachedKeyKeepsOthers ==
  [][\A d \in Documents : \A v \in Versions : \A c \in StoredConfigs :
       (CaSet(d, v, c) /\ buildCacheKey(d, v, c) \in Keys(caEntries))
         => \A i \in 1..Len(caEntries) :
              caEntries[i].key # buildCacheKey(d, v, c)
                => \E j \in 1..Len(caEntries') : caEntries'[j] = caEntries[i]]_vars

====
